---- MODULE Spec2Model ----
(***************************************************************************)
(* autoblog-ai: the article generator (internal/article/generator.go):     *)
(* Generate, its prompt building, its retrying API caller, the error       *)
(* classification and the response parser; and the weighted topic          *)
(* selection of the configuration (internal/config/config.go).             *)
(*                                                                         *)
(* Texts (error messages, response bodies, raw model output) are           *)
(* sequences of symbols.  A symbol stands for a non-empty run of           *)
(* characters; the characters that the code searches for or parses         *)
(* (digits, braces, quotes, ...) are symbols of their own, and the words   *)
(* ("timeout", "status ", ...) share no character run with them, so that   *)
(* a search on the symbols finds what strings.Contains finds on the        *)
(* characters.                                                             *)
(***************************************************************************)
EXTENDS Integers, Sequences, FiniteSets, TLC

VARIABLES
    pc,          \* where the run stands: "generate", "call", "backoff", "done",
                 \*   "returned"; "classify", "parse", "select" and their ends
    apiURL,      \* g.apiURL
    ctxErr,      \* ctx.Err(): "nil" until the context is done
    attempt,     \* the loop variable of callClaudeAPIWithRetry
    backoff,     \* seconds of the backoff wait in progress (0: none)
    lastErr,     \* lastErr of callClaudeAPIWithRetry
    ret,         \* what callClaudeAPIWithRetry returned
    attempts,    \* observer: API attempts issued so far
    waits,       \* observer: the backoff waits that ran to their end, in order
    lastOutcome, \* observer: what the API did on the latest attempt
    allRetryable,\* observer: every attempt so far failed with a retryable error
    cancelledAt, \* observer: when the context ended: "never", "before" the call,
                 \*   during an "attempt", during a "backoff" wait
    aborted,     \* observer: a backoff wait was cut short by the context
    cerr,        \* SpecClassify: the error handed to isRetryableError
    cres,        \* SpecClassify: its answer
    raw,         \* SpecParse: the text handed to parseResponse
    parsed,      \* SpecParse: its result
    payload,     \* SpecPayload: the article the raw text carries
    topics,      \* c.Topics of the configuration
    template,    \* what reading the prompt template file gives
    topic,       \* Generate: the requested topic
    history,     \* Generate: history.Articles
    previousTitles, \* Generate: the titles handed to prompt building
    prompt,      \* Generate: the prompt built
    article,     \* Generate: what it returned
    random,      \* SelectRandomTopic: the draw r.Intn(totalWeight)
    selected,    \* SelectRandomTopic: the name returned
    yaml,        \* Load: what reading and unmarshalling the YAML file gives
    env,         \* Load, Validate: the files that exist, the topics CSV file,
                 \*   the environment variables
    config,      \* Load: the *Config returned; Validate: its receiver
    cfgErr,      \* Load, Validate: the error returned
    requests,    \* Publish: the HTTP requests issued so far, in order
    responses,   \* Publish: what each of them was answered with
    user,        \* Publish: the result of getUser
    published,   \* Publish: the (url, err) returned
    dryRun,      \* main: the -dry-run flag
    topicFlag,   \* main: the -topic flag
    store,       \* main: the content of articles.json
    saves,       \* observer: calls of store.Save
    publishCalls,\* observer: calls of publisher.Publish
    localFiles,  \* main: titles of the articles written under generated/
    status       \* main: "running", or how the process ended

vars == <<pc, apiURL, ctxErr, attempt, backoff, lastErr, ret, attempts, waits,
          lastOutcome, allRetryable, cancelledAt, aborted, cerr, cres, raw, parsed,
          payload, topics, template, topic, history, previousTitles, prompt,
          article, random, selected, yaml, env, config, cfgErr, requests,
          responses, user, published, dryRun, topicFlag, store, saves,
          publishCalls, localFiles, status>>

retryVars == <<pc, apiURL, ctxErr, attempt, backoff, lastErr, ret, attempts,
               waits, lastOutcome, allRetryable, cancelledAt, aborted>>

genVars == <<topics, template, topic, history, previousTitles, prompt, article>>

selVars == <<random, selected>>

cfgVars == <<yaml, env, config, cfgErr>>

pubVars == <<requests, responses, user, published>>

mainVars == <<dryRun, topicFlag, store, saves, publishCalls, localFiles, status>>

extVars == <<cfgVars, pubVars, mainVars>>

pureVars == <<cerr, cres, raw, parsed, payload, genVars, selVars, extVars>>

----------------------------------------------------------------------------
(* Bounds *)

MaxBodyLen == 2
MaxMsgLen == 3
MaxPortLen == 5
MaxRawLen == 5
MaxProseLen == 2
MaxTags == 2
MaxHistLen == 3
MaxTopics == 3
IntBits == 5
MaxRows == 2

----------------------------------------------------------------------------
(* Texts *)

\* the texts of at most n symbols of S
SeqsUpTo(S, n) == UNION {[1..k -> S] : k \in 0..n}

\* strings.Contains(s, sub)
Contains(s, sub) ==
    \E i \in 0..(Len(s) - Len(sub)) :
        \A j \in 1..Len(sub) : s[i + j] = sub[j]

\* the decimal digits fmt's %d prints for a status code (100..999)
FormatStatus(n) ==
    LET d(k) == CASE k = 0 -> "0" [] k = 1 -> "1" [] k = 2 -> "2" [] k = 3 -> "3"
                  [] k = 4 -> "4" [] k = 5 -> "5" [] k = 6 -> "6" [] k = 7 -> "7"
                  [] k = 8 -> "8" [] OTHER -> "9"
    IN  <<d(n \div 100), d((n \div 10) % 10), d(n % 10)>>

----------------------------------------------------------------------------
(* Errors: kind is the error's identity (what == compares), msg is         *)
(* Error(), wraps names the context error an error wraps, if any.          *)

Canceled ==
    [kind |-> "context.Canceled", msg |-> <<"context canceled">>, wraps |-> "nil"]

DeadlineExceeded ==
    [kind |-> "context.DeadlineExceeded", msg |-> <<"context deadline exceeded">>,
     wraps |-> "nil"]

CtxError(e) == IF e = "context.Canceled" THEN Canceled ELSE DeadlineExceeded

\* errors.New / fmt.Errorf without %w
ErrorOf(m) == [kind |-> "error", msg |-> m, wraps |-> "nil"]

\* the *url.Error of client.Do: Op "URL": Err
UrlError(url, cause) ==
    [kind |-> "url.Error",
     msg |-> <<"Post ", "\"">> \o url \o <<"\"", ": ">> \o cause.msg,
     wraps |-> IF cause.kind \in {"context.Canceled", "context.DeadlineExceeded"}
               THEN cause.kind ELSE cause.wraps]

ConnRefused == ErrorOf(<<"dial tcp: connect: ", "connection refused">>)
IOTimeout == ErrorOf(<<"dial tcp: i/o ", "timeout">>)
EOFError == ErrorOf(<<"EOF">>)

NoErr == [kind |-> "nil", msg |-> <<>>, wraps |-> "nil"]

----------------------------------------------------------------------------
(* isRetryableError *)

isRetryableError(err) ==
    IF err = Canceled \/ err = DeadlineExceeded
    THEN FALSE
    ELSE LET errStr == err.msg
         IN  \/ Contains(errStr, <<"status ", "5">>)
             \/ Contains(errStr, <<"4", "2", "9">>)
             \/ Contains(errStr, <<"timeout">>)
             \/ Contains(errStr, <<"connection refused">>)
----------------------------------------------------------------------------
(* The generation API as one attempt sees it *)

maxRetries == 3

Statuses == {200, 201, 400, 404, 429, 500, 503}

BodyAlphabet == {"x", "timeout"}

Bodies == SeqsUpTo(BodyAlphabet, MaxBodyLen)

\* raw model outputs a successful response may carry
RespTexts ==
    {<<"x">>, <<"{", "}">>, <<"}", " ", "{">>,
     <<"{", "\"", "title", "\"", ":", "\"", "T", "\"", "}">>}

ProdURL == <<"https://api.anthropic.com/v1/messages">>

TestURL(port) == <<"http://127.0.0.1:">> \o port

ApiURLs == {ProdURL, TestURL(<<"8", "0", "8", "0">>), TestURL(<<"4", "2", "9", "0", "1">>)}

\* what the network and the server do on one attempt:
\*   "doErr"   client.Do fails with err (wrapped in a *url.Error)
\*   "readErr" reading the body fails with err
\*   "http"    a response: status, body text (non-200), and for a 200 whether
\*             the body is JSON and the texts of its content list
Outcome(k, e, st, b, j, c) ==
    [kind |-> k, err |-> e, status |-> st, body |-> b, json |-> j, content |-> c]

HttpOutcomes ==
    {Outcome("http", NoErr, st, b, TRUE, <<>>) : st \in Statuses \ {200}, b \in Bodies}
    \cup {Outcome("http", NoErr, 200, <<>>, FALSE, <<>>)}
    \cup {Outcome("http", NoErr, 200, <<>>, TRUE, c) : c \in SeqsUpTo(RespTexts, 2)}

NetOutcomes ==
    {Outcome("doErr", e, 0, <<>>, TRUE, <<>>) : e \in {ConnRefused, IOTimeout, EOFError}}

\* failures a done context causes: client.Do wraps ctx.Err(), a body read
\* returns it as it is
CtxOutcomes(e) ==
    {Outcome("doErr", CtxError(e), 0, <<>>, TRUE, <<>>),
     Outcome("readErr", CtxError(e), 0, <<>>, TRUE, <<>>)}

\* with the context done before the request, client.Do fails at once;
\* otherwise the context may also end while the attempt runs
Outcomes(ctx) ==
    IF ctx # "nil"
    THEN {Outcome("doErr", CtxError(ctx), 0, <<>>, TRUE, <<>>)}
    ELSE HttpOutcomes \cup NetOutcomes
         \cup CtxOutcomes("context.Canceled") \cup CtxOutcomes("context.DeadlineExceeded")

IsCtxOutcome(o) == o.err.kind \in {"context.Canceled", "context.DeadlineExceeded"}

StatusError(st, b) ==
    ErrorOf(<<"API request failed with ", "status ">> \o FormatStatus(st) \o <<": ">> \o b)

\* a variant that returns the last content block instead of the first
callClaudeAPI_LastContent(url, o) ==
    CASE o.kind = "doErr" -> [text |-> <<>>, err |-> UrlError(url, o.err)]
      [] o.kind = "readErr" -> [text |-> <<>>, err |-> o.err]
      [] OTHER ->
            IF o.status # 200
            THEN [text |-> <<>>, err |-> StatusError(o.status, o.body)]
            ELSE IF ~o.json
            THEN [text |-> <<>>, err |-> ErrorOf(<<"unexpected end of JSON input">>)]
            ELSE IF Len(o.content) = 0
            THEN [text |-> <<>>, err |-> ErrorOf(<<"no content in response">>)]
            ELSE [text |-> o.content[Len(o.content)], err |-> NoErr]

\* a variant without the check of the content list's length
callClaudeAPI_NoLenCheck(url, o) ==
    CASE o.kind = "doErr" -> [text |-> <<>>, err |-> UrlError(url, o.err)]
      [] o.kind = "readErr" -> [text |-> <<>>, err |-> o.err]
      [] OTHER ->
            IF o.status # 200
            THEN [text |-> <<>>, err |-> StatusError(o.status, o.body)]
            ELSE IF ~o.json
            THEN [text |-> <<>>, err |-> ErrorOf(<<"unexpected end of JSON input">>)]
            ELSE [text |-> IF Len(o.content) = 0 THEN <<>> ELSE o.content[1],
                  err |-> NoErr]

\* callClaudeAPI: the (text, err) of one attempt
callClaudeAPI(url, o) ==
    CASE o.kind = "doErr" -> [text |-> <<>>, err |-> UrlError(url, o.err)]
      [] o.kind = "readErr" -> [text |-> <<>>, err |-> o.err]
      [] OTHER ->
            IF o.status # 200
            THEN [text |-> <<>>, err |-> StatusError(o.status, o.body)]
            ELSE IF ~o.json
            THEN [text |-> <<>>, err |-> ErrorOf(<<"unexpected end of JSON input">>)]
            ELSE IF Len(o.content) = 0
            THEN [text |-> <<>>, err |-> ErrorOf(<<"no content in response">>)]
            ELSE [text |-> o.content[1], err |-> NoErr]

----------------------------------------------------------------------------
(* callClaudeAPIWithRetry *)

RECURSIVE Pow2(_)
Pow2(n) == IF n = 0 THEN 1 ELSE 2 * Pow2(n - 1)

\* a variant one step ahead in the schedule: 4s, 8s
BackoffSeconds_Ahead(a) == Pow2(a + 1)

\* time.Duration(math.Pow(2, float64(attempt))) * time.Second, in seconds
BackoffSeconds(a) == Pow2(a)

Pending == [kind |-> "pending", text |-> <<>>, err |-> NoErr]
Ok(t) == [kind |-> "ok", text |-> t, err |-> NoErr]
Err(e) == [kind |-> "err", text |-> <<>>, err |-> e]

\* fmt.Errorf("max retries exceeded: %w", lastErr)
MaxRetriesError(e) ==
    [kind |-> "wrapError", msg |-> <<"max retries exceeded: ">> \o e.msg,
     wraps |-> IF e.kind \in {"context.Canceled", "context.DeadlineExceeded"}
               THEN e.kind ELSE e.wraps,
     inner |-> e]

\* a variant whose loop runs one iteration more
LoopHead_OneMore(a, e) ==
    IF a <= maxRetries
    THEN /\ pc' = "backoff"
         /\ backoff' = BackoffSeconds(a)
         /\ ret' = ret
    ELSE /\ pc' = "done"
         /\ backoff' = 0
         /\ ret' = Err(MaxRetriesError(e))

\* a variant that wraps the error of the attempt before the last
LoopHead_StaleErr(a, e) ==
    IF a < maxRetries
    THEN /\ pc' = "backoff"
         /\ backoff' = BackoffSeconds(a)
         /\ ret' = ret
    ELSE /\ pc' = "done"
         /\ backoff' = 0
         /\ ret' = Err(MaxRetriesError(lastErr))

\* the head of the loop for iteration a, after the retryable failure e:
\* compute the backoff and wait, or leave the loop with lastErr wrapped
LoopHead(a, e) ==
    IF a < maxRetries
    THEN /\ pc' = "backoff"
         /\ backoff' = BackoffSeconds(a)
         /\ ret' = ret
    ELSE /\ pc' = "done"
         /\ backoff' = 0
         /\ ret' = Err(MaxRetriesError(e))

\* err == nil: return response, nil
OnSuccess(r) ==
    /\ ret' = Ok(r.text)
    /\ pc' = "done"
    /\ allRetryable' = FALSE
    /\ UNCHANGED <<attempt, backoff, lastErr>>

\* a variant that retries whatever the error is
OnError_AlwaysRetry(r) ==
    /\ lastErr' = r.err
    /\ attempt' = attempt + 1
    /\ LoopHead(attempt + 1, r.err)
    /\ UNCHANGED allRetryable

\* err != nil: lastErr = err; return err if it is not retryable, else go on
OnError(r) ==
    /\ lastErr' = r.err
    /\ IF ~isRetryableError(r.err)
       THEN /\ ret' = Err(r.err)
            /\ pc' = "done"
            /\ allRetryable' = FALSE
            /\ UNCHANGED <<attempt, backoff>>
       ELSE /\ attempt' = attempt + 1
            /\ LoopHead(attempt + 1, r.err)
            /\ UNCHANGED allRetryable

\* one attempt and the step to the next iteration
CallAPI ==
    /\ pc = "call"
    /\ \E o \in Outcomes(ctxErr) :
         LET r == callClaudeAPI(apiURL, o)
         IN  /\ attempts' = attempts + 1
             /\ lastOutcome' = o
             /\ ctxErr' = IF IsCtxOutcome(o) THEN o.err.kind ELSE ctxErr
             /\ cancelledAt' = IF IsCtxOutcome(o) /\ ctxErr = "nil"
                               THEN "attempt" ELSE cancelledAt
             /\ IF r.err = NoErr THEN OnSuccess(r) ELSE OnError(r)
    /\ UNCHANGED <<apiURL, waits, aborted>>
    /\ UNCHANGED pureVars

\* a variant whose timer case also runs when the context is done
BackoffTimer_Blind ==
    /\ pc = "backoff"
    /\ waits' = Append(waits, backoff)
    /\ backoff' = 0
    /\ pc' = "call"
    /\ UNCHANGED <<apiURL, ctxErr, attempt, lastErr, ret, attempts, lastOutcome,
                   allRetryable, cancelledAt, aborted>>
    /\ UNCHANGED pureVars

\* case <-time.After(backoff).  The select blocks on a timer created just
\* before it and on ctx.Done(), and is woken by whichever fires first: the
\* timer case runs only while the context is not done.
BackoffTimer ==
    /\ pc = "backoff"
    /\ ctxErr = "nil"
    /\ waits' = Append(waits, backoff)
    /\ backoff' = 0
    /\ pc' = "call"
    /\ UNCHANGED <<apiURL, ctxErr, attempt, lastErr, ret, attempts, lastOutcome,
                   allRetryable, cancelledAt, aborted>>
    /\ UNCHANGED pureVars

\* a variant that reports the retries as exhausted
BackoffCancelled_Exhausted ==
    /\ pc = "backoff"
    /\ ctxErr # "nil"
    /\ ret' = Err(MaxRetriesError(lastErr))
    /\ pc' = "done"
    /\ aborted' = TRUE
    /\ backoff' = 0
    /\ UNCHANGED <<apiURL, ctxErr, attempt, lastErr, attempts, waits,
                   lastOutcome, allRetryable, cancelledAt>>
    /\ UNCHANGED pureVars

\* a variant that notes the end of the context and goes on waiting
BackoffCancelled_Ignored ==
    /\ pc = "backoff"
    /\ ctxErr # "nil"
    /\ aborted' = TRUE
    /\ UNCHANGED <<pc, apiURL, ctxErr, attempt, backoff, lastErr, ret, attempts,
                   waits, lastOutcome, allRetryable, cancelledAt>>
    /\ UNCHANGED pureVars

\* case <-ctx.Done(): return "", ctx.Err()
BackoffCancelled ==
    /\ pc = "backoff"
    /\ ctxErr # "nil"
    /\ ret' = Err(CtxError(ctxErr))
    /\ pc' = "done"
    /\ aborted' = TRUE
    /\ backoff' = 0
    /\ UNCHANGED <<apiURL, ctxErr, attempt, lastErr, attempts, waits,
                   lastOutcome, allRetryable, cancelledAt>>
    /\ UNCHANGED pureVars

\* the caller's context is cancelled, or its deadline passes, during a wait
Cancel ==
    /\ pc = "backoff"
    /\ ctxErr = "nil"
    /\ ctxErr' \in {"context.Canceled", "context.DeadlineExceeded"}
    /\ cancelledAt' = "backoff"
    /\ UNCHANGED <<pc, apiURL, attempt, backoff, lastErr, ret, attempts, waits,
                   lastOutcome, allRetryable, aborted>>
    /\ UNCHANGED pureVars

NoOutcome == Outcome("none", NoErr, 0, <<>>, TRUE, <<>>)

Idle == <<>>

\* Generate and SelectRandomTopic are not running
GenIdle ==
    /\ topics = Idle
    /\ template = Idle
    /\ topic = Idle
    /\ history = Idle
    /\ previousTitles = Idle
    /\ prompt = Idle
    /\ article = Idle

SelIdle == random = 0 /\ selected = Idle

\* Load and Validate are not running
CfgIdle == yaml = Idle /\ env = Idle /\ config = Idle /\ cfgErr = Idle

\* Publish is not running
PubIdle == requests = <<>> /\ responses = <<>> /\ user = Idle /\ published = Idle

\* no run of main
MainIdle ==
    /\ dryRun = FALSE
    /\ topicFlag = Idle
    /\ store = Idle
    /\ saves = 0
    /\ publishCalls = 0
    /\ localFiles = {}
    /\ status = "running"

ExtIdle == CfgIdle /\ PubIdle /\ MainIdle

Init ==
    /\ pc = "call"
    /\ apiURL \in ApiURLs
    /\ ctxErr \in {"nil", "context.Canceled", "context.DeadlineExceeded"}
    /\ attempt = 0
    /\ backoff = 0
    /\ lastErr = NoErr
    /\ ret = Pending
    /\ attempts = 0
    /\ waits = <<>>
    /\ lastOutcome = NoOutcome
    /\ allRetryable = TRUE
    /\ cancelledAt = (IF ctxErr = "nil" THEN "never" ELSE "before")
    /\ aborted = FALSE
    /\ cerr = NoErr
    /\ cres = FALSE
    /\ raw = Idle
    /\ parsed = Idle
    /\ payload = Idle
    /\ GenIdle
    /\ SelIdle
    /\ ExtIdle

Next == CallAPI \/ BackoffTimer \/ BackoffCancelled \/ Cancel

Spec == Init /\ [][Next]_vars

\* the generator NewGenerator builds: apiURL is the production endpoint
InitProd == Init /\ apiURL = ProdURL

SpecProd == InitProd /\ [][Next]_vars

----------------------------------------------------------------------------
(* Properties of callClaudeAPIWithRetry *)

\* the latest attempt succeeded: a 200 whose body is JSON with content
Succeeded(o) == o.kind = "http" /\ o.status = 200 /\ o.json /\ Len(o.content) > 0

\* the error of the latest attempt
AttemptErr == callClaudeAPI(apiURL, lastOutcome).err

IsMaxRetries(r) == r.kind = "err" /\ r.err.kind = "wrapError"

\* C1: in every run at most 3 API attempts are issued, and when every
\* attempt fails with a retryable error exactly 3 attempts are issued and
\* the call returns an error.
C1_AllRetryableGivesThree ==
    /\ attempts <= 3
    /\ (pc = "done" /\ allRetryable) => (attempts = 3 /\ ret.kind = "err")

\* C1 as amended: at most 3 attempts; when every attempt fails with a
\* retryable error and no backoff wait is cut short by the context, exactly
\* 3 attempts are issued and the call returns an error.
C1_AtMostThreeAttempts ==
    /\ attempts <= 3
    /\ (pc = "done" /\ allRetryable /\ ~aborted) => (attempts = 3 /\ ret.kind = "err")

C1_Witness ==
    pc = "done" /\ allRetryable /\ ~aborted /\ attempts = 3 /\ ret.kind = "err"

\* C2: an attempt that fails with a non-retryable error ends the call with
\* that same error: no backoff wait is started and no further attempt is
\* issued, whichever attempt it was; nothing changes after the return.
C2_NonRetryableReturnsAtOnce ==
    [][/\ (attempts' = attempts + 1 /\ AttemptErr' # NoErr
              /\ ~isRetryableError(AttemptErr'))
          => /\ pc' = "done"
             /\ ret' = Err(AttemptErr')
             /\ backoff' = 0
             /\ waits' = waits
       /\ pc = "done" => UNCHANGED <<attempts, waits, ret>>]_vars

C2_Witness ==
    /\ pc = "done"
    /\ attempts = 2
    /\ lastOutcome.kind = "http" /\ lastOutcome.status = 400
    /\ ret = Err(StatusError(400, lastOutcome.body))

\* C3: when attempt n (n in 1..3) is the first to succeed, the earlier ones
\* having failed with retryable errors, the call returns the text of attempt
\* n with no error, and n attempts were issued in all.
C3_SuccessReturnsText ==
    Succeeded(lastOutcome) =>
        /\ pc = "done"
        /\ ret = Ok(lastOutcome.content[1])
        /\ attempts \in 1..3
        /\ attempts = attempt + 1
        /\ Len(waits) = attempts - 1

C3_Witness ==
    /\ Succeeded(lastOutcome) /\ attempts = 3 /\ pc = "done"
    /\ Len(lastOutcome.content) = 2
    /\ lastOutcome.content[1] # lastOutcome.content[2]
    /\ ret.kind = "ok"

C5_CancelDuringBackoff ==
    [][(pc = "backoff" /\ ctxErr # "nil")
          => /\ pc' = "done"
             /\ ret' = Err(CtxError(ctxErr))
             /\ ~IsMaxRetries(ret')
             /\ waits' = waits
             /\ attempts' = attempts]_vars

C5_Witness ==
    /\ cancelledAt = "backoff" /\ aborted /\ pc = "done"
    /\ attempts = 2 /\ waits = <<2>>
    /\ ret = Err(Canceled)

\* C6: the call returns the "max retries exceeded" error if and only if
\* three attempts were issued and all three failed with retryable errors,
\* and that error wraps the error of the third attempt.
C6_MaxRetriesIffThreeRetryable ==
    /\ IsMaxRetries(ret) <=> (attempts = 3 /\ allRetryable)
    /\ IsMaxRetries(ret) => (ret.err.inner = AttemptErr /\ pc = "done")

C6_Witness ==
    /\ IsMaxRetries(ret)
    /\ lastOutcome.kind = "http" /\ lastOutcome.status = 503
    /\ ret.err.inner = StatusError(503, <<"x">>)

\* C7: a response with a 4xx status other than 429, whatever its body says,
\* ends the call after that one attempt with the failure.
C7_ClientErrorNotRetried ==
    (/\ attempts = 1
     /\ lastOutcome.kind = "http"
     /\ lastOutcome.status \in 400..499
     /\ lastOutcome.status # 429)
        => (pc = "done" /\ ret = Err(AttemptErr))

\* the latest response is a 200 whose body is JSON with an empty content list
EmptyContent(o) == o.kind = "http" /\ o.status = 200 /\ o.json /\ Len(o.content) = 0

\* C20: a status-200 response whose content list is empty makes the attempt
\* fail with the error "no content in response", and the call returns that
\* failure after this attempt: no wait is started, no retry follows.
C20_NoContentNotRetried ==
    EmptyContent(lastOutcome) =>
        /\ AttemptErr = ErrorOf(<<"no content in response">>)
        /\ pc = "done"
        /\ ret = Err(ErrorOf(<<"no content in response">>))
        /\ backoff = 0
        /\ Len(waits) = attempts - 1
        /\ ~allRetryable

C20_Witness ==
    /\ EmptyContent(lastOutcome)
    /\ attempts = 1
    /\ waits = <<>>
    /\ ret.kind = "err"
    /\ pc = "done"

----------------------------------------------------------------------------
(* isRetryableError on its own: every error of a bounded family *)

MsgAlphabet == {"x", "status ", "4", "2", "9", "5", "timeout", "connection refused"}

Messages == SeqsUpTo(MsgAlphabet, MaxMsgLen)

PortDigits == {"0", "2", "4", "9"}

Ports == SeqsUpTo(PortDigits, MaxPortLen) \ {<<>>}

TransportCauses == {Canceled, DeadlineExceeded, ConnRefused, IOTimeout, EOFError}

\* the errors classified: the context's own, the *url.Error of a generator
\* built by NewGenerator or for a local test server (newTestGenerator), the
\* status errors, and plain errors of any message
IsClassifyError(e) ==
    \/ e \in {Canceled, DeadlineExceeded}
    \/ \E c \in TransportCauses : e = UrlError(ProdURL, c)
    \/ \E p \in Ports, c \in TransportCauses : e = UrlError(TestURL(p), c)
    \/ \E st \in Statuses \ {200}, b \in Messages : e = StatusError(st, b)
    \/ \E m \in Messages \ {<<>>} : e = ErrorOf(m)

RetryIdle ==
    /\ apiURL = ProdURL
    /\ ctxErr = "nil"
    /\ attempt = 0
    /\ backoff = 0
    /\ lastErr = NoErr
    /\ ret = Pending
    /\ attempts = 0
    /\ waits = <<>>
    /\ lastOutcome = NoOutcome
    /\ allRetryable = TRUE
    /\ cancelledAt = "never"
    /\ aborted = FALSE

InitClassify ==
    /\ pc = "classify"
    /\ RetryIdle
    /\ IsClassifyError(cerr)
    /\ cres = FALSE
    /\ raw = Idle
    /\ parsed = Idle
    /\ payload = Idle
    /\ GenIdle
    /\ SelIdle
    /\ ExtIdle

Classify ==
    /\ pc = "classify"
    /\ cres' = isRetryableError(cerr)
    /\ pc' = "classified"
    /\ UNCHANGED <<apiURL, ctxErr, attempt, backoff, lastErr, ret, attempts, waits,
                   lastOutcome, allRetryable, cancelledAt, aborted, cerr, raw, parsed,
                   payload, genVars, selVars,
                   extVars>>

NextClassify == Classify

SpecClassify == InitClassify /\ [][NextClassify]_vars

\* the error is a context error, or wraps one
IsContextError(e) ==
    \/ e.kind \in {"context.Canceled", "context.DeadlineExceeded"}
    \/ e.wraps \in {"context.Canceled", "context.DeadlineExceeded"}

\* C8: an error that is the context's cancellation or deadline error, or a
\* transport error wrapping it, whatever text surrounds it, is classified
\* non-retryable.
C8_ContextErrorsNotRetryable ==
    (pc = "classified" /\ IsContextError(cerr)) => cres = FALSE

----------------------------------------------------------------------------
(* encoding/json, as far as parseResponse uses it.  A JSON text is a       *)
(* sequence of symbols: the punctuation { } [ ] : , and the quote are      *)
(* symbols of their own, " " is white space, "1" a digit, null/true/false  *)
(* the literals; any other symbol is a run of letters.  A string literal   *)
(* runs from a quote to the next quote; the escaped quote \" is one symbol *)
(* (the texts hold no other backslash).                                    *)

JNull == [t |-> "null", v |-> <<>>]
JLit == [t |-> "bool", v |-> <<>>]
JNum == [t |-> "num", v |-> <<>>]
JStr(x) == [t |-> "str", v |-> x]
JArr(x) == [t |-> "arr", v |-> x]
JObj(x) == [t |-> "obj", v |-> x]

Fail == [ok |-> FALSE, pos |-> 0, val |-> JNull]
Parsed(p, v) == [ok |-> TRUE, pos |-> p, val |-> v]

RECURSIVE SkipWs(_, _)
SkipWs(s, i) == IF i <= Len(s) /\ s[i] = " " THEN SkipWs(s, i + 1) ELSE i

RECURSIVE SkipDigits(_, _)
SkipDigits(s, i) == IF i <= Len(s) /\ s[i] = "1" THEN SkipDigits(s, i + 1) ELSE i

\* the value of a string literal's text: the escape \" stands for a quote
Unescape(x) == [i \in 1..Len(x) |-> IF x[i] = "\\\"" THEN "\"" ELSE x[i]]

\* s[i] is a quote: the literal ends at the next quote that is not escaped
ParseString(s, i) ==
    LET closing == {j \in (i + 1)..Len(s) : s[j] = "\""}
    IN  IF closing = {} THEN Fail
        ELSE LET j == CHOOSE c \in closing : \A d \in closing : c <= d
             IN  Parsed(j + 1, JStr(Unescape(SubSeq(s, i + 1, j - 1))))

RECURSIVE ParseValue(_, _), ParseMembers(_, _, _), ParseElements(_, _, _)

\* the value that starts at or after i (white space skipped)
ParseValue(s, i0) ==
    LET i == SkipWs(s, i0)
    IN  IF i > Len(s) THEN Fail
        ELSE CASE s[i] = "{" ->
                    LET k == SkipWs(s, i + 1)
                    IN  IF k <= Len(s) /\ s[k] = "}"
                        THEN Parsed(k + 1, JObj(<<>>))
                        ELSE ParseMembers(s, k, <<>>)
               [] s[i] = "[" ->
                    LET k == SkipWs(s, i + 1)
                    IN  IF k <= Len(s) /\ s[k] = "]"
                        THEN Parsed(k + 1, JArr(<<>>))
                        ELSE ParseElements(s, k, <<>>)
               [] s[i] = "\"" -> ParseString(s, i)
               [] s[i] = "1" -> Parsed(SkipDigits(s, i), JNum)
               [] s[i] = "null" -> Parsed(i + 1, JNull)
               [] s[i] \in {"true", "false"} -> Parsed(i + 1, JLit)
               [] OTHER -> Fail

\* "key": value pairs up to the closing brace
ParseMembers(s, i, acc) ==
    IF i > Len(s) \/ s[i] # "\"" THEN Fail
    ELSE LET k == ParseString(s, i)
         IN  IF ~k.ok THEN Fail
             ELSE LET c == SkipWs(s, k.pos)
                  IN  IF c > Len(s) \/ s[c] # ":" THEN Fail
                      ELSE LET v == ParseValue(s, c + 1)
                           IN  IF ~v.ok THEN Fail
                               ELSE LET e == SkipWs(s, v.pos)
                                        m == Append(acc, [key |-> k.val.v, val |-> v.val])
                                    IN  IF e > Len(s) THEN Fail
                                        ELSE IF s[e] = "}" THEN Parsed(e + 1, JObj(m))
                                        ELSE IF s[e] = ","
                                        THEN ParseMembers(s, SkipWs(s, e + 1), m)
                                        ELSE Fail

\* values up to the closing bracket
ParseElements(s, i, acc) ==
    LET v == ParseValue(s, i)
    IN  IF ~v.ok THEN Fail
        ELSE LET e == SkipWs(s, v.pos)
                 m == Append(acc, v.val)
             IN  IF e > Len(s) THEN Fail
                 ELSE IF s[e] = "]" THEN Parsed(e + 1, JArr(m))
                 ELSE IF s[e] = "," THEN ParseElements(s, e + 1, m)
                 ELSE Fail

\* the whole text is one JSON value (checkValid): nothing but white space
\* follows the value
ParseJSON(s) ==
    LET p == ParseValue(s, 1)
    IN  IF p.ok /\ SkipWs(s, p.pos) = Len(s) + 1 THEN p ELSE Fail

IsJSONObject(s) == ParseJSON(s).ok /\ ParseJSON(s).val.t = "obj"

\* the struct parseResponse decodes into
ZeroResult == [Title |-> <<>>, Content |-> <<>>, Tags |-> <<>>, typeErr |-> FALSE]

\* a variant that fills the slice from its end
RECURSIVE StringsOf_Reversed(_, _)
StringsOf_Reversed(a, i) ==
    IF i > Len(a) THEN [tags |-> <<>>, typeErr |-> FALSE]
    ELSE LET rest == StringsOf_Reversed(a, i + 1)
         IN  IF a[i].t = "str"
             THEN [tags |-> rest.tags \o <<a[i].v>>, typeErr |-> rest.typeErr]
             ELSE [tags |-> rest.tags \o <<<<>>>>,
                   typeErr |-> rest.typeErr \/ a[i].t # "null"]

\* a JSON array into []string: strings, and null for ""
RECURSIVE StringsOf(_, _)
StringsOf(a, i) ==
    IF i > Len(a) THEN [tags |-> <<>>, typeErr |-> FALSE]
    ELSE LET rest == StringsOf(a, i + 1)
         IN  IF a[i].t = "str"
             THEN [tags |-> <<a[i].v>> \o rest.tags, typeErr |-> rest.typeErr]
             ELSE [tags |-> <<<<>>>> \o rest.tags,
                   typeErr |-> rest.typeErr \/ a[i].t # "null"]

\* one member stored into the struct; a value of the wrong type is an
\* UnmarshalTypeError, a null leaves a string field as it is, an unknown key
\* is skipped, a repeated key overwrites
StoreMember(r, m) ==
    CASE m.key = <<"title">> ->
            IF m.val.t = "str" THEN [r EXCEPT !.Title = m.val.v]
            ELSE IF m.val.t = "null" THEN r ELSE [r EXCEPT !.typeErr = TRUE]
      [] m.key = <<"content">> ->
            IF m.val.t = "str" THEN [r EXCEPT !.Content = m.val.v]
            ELSE IF m.val.t = "null" THEN r ELSE [r EXCEPT !.typeErr = TRUE]
      [] m.key = <<"tags">> ->
            IF m.val.t = "arr"
            THEN LET x == StringsOf(m.val.v, 1)
                 IN  [r EXCEPT !.Tags = x.tags, !.typeErr = r.typeErr \/ x.typeErr]
            ELSE IF m.val.t = "null" THEN [r EXCEPT !.Tags = <<>>]
            ELSE [r EXCEPT !.typeErr = TRUE]
      [] OTHER -> r

RECURSIVE StoreMembers(_, _, _)
StoreMembers(r, ms, i) ==
    IF i > Len(ms) THEN r ELSE StoreMembers(StoreMember(r, ms[i]), ms, i + 1)

\* json.Unmarshal(data, &result): ok, or the error
Unmarshal(s) ==
    LET p == ParseJSON(s)
    IN  IF ~p.ok THEN [ok |-> FALSE, err |-> "syntax", result |-> ZeroResult]
        ELSE IF p.val.t = "null" THEN [ok |-> TRUE, err |-> "nil", result |-> ZeroResult]
        ELSE IF p.val.t # "obj" THEN [ok |-> FALSE, err |-> "type", result |-> ZeroResult]
        ELSE LET r == StoreMembers(ZeroResult, p.val.v, 1)
             IN  IF r.typeErr THEN [ok |-> FALSE, err |-> "type", result |-> r]
                 ELSE [ok |-> TRUE, err |-> "nil", result |-> r]

----------------------------------------------------------------------------
(* parseResponse *)

\* strings.Index(s, c): the offset of the first c, -1 if there is none
Index(s, c) ==
    LET at == {i \in 1..Len(s) : s[i] = c}
    IN  IF at = {} THEN -1 ELSE (CHOOSE i \in at : \A j \in at : i <= j) - 1

\* strings.LastIndex(s, c)
LastIndex(s, c) ==
    LET at == {i \in 1..Len(s) : s[i] = c}
    IN  IF at = {} THEN -1 ELSE (CHOOSE i \in at : \A j \in at : i >= j) - 1

ParseError(m) ==
    [kind |-> "error", err |-> m, Title |-> <<>>, Content |-> <<>>, Tags |-> <<>>,
     PublishedAt |-> 0]

\* the run time's "slice bounds out of range": no value is returned
ParsePanic ==
    [kind |-> "panic", err |-> "slice bounds out of range", Title |-> <<>>,
     Content |-> <<>>, Tags |-> <<>>, PublishedAt |-> 0]

ArticleOf(r) ==
    [kind |-> "article", err |-> "nil", Title |-> r.Title, Content |-> r.Content,
     Tags |-> r.Tags, PublishedAt |-> 0]

parseResponse(response) ==
    LET start == Index(response, "{")
        end == LastIndex(response, "}")
    IN  IF start = -1 \/ end = -1
        THEN ParseError("no JSON found in response")
        ELSE IF start > end + 1
        THEN ParsePanic      \* response[start : end+1] with start > end+1
        ELSE LET jsonStr == SubSeq(response, start + 1, end + 1)
                 u == Unmarshal(jsonStr)
             IN  IF ~u.ok THEN ParseError("failed to parse JSON")
                 ELSE ArticleOf(u.result)

ParseAlphabet == {"{", "}", "x", "\""}

Quoted(w) == <<"\"">> \o w \o <<"\"">>

\* {"title": t, "content": c, "tags": [g]}
ArticleJSON(t, c, g) ==
    <<"{">> \o Quoted(<<"title">>) \o <<":", " ">> \o Quoted(t) \o <<",", " ">>
    \o Quoted(<<"content">>) \o <<":", " ">> \o Quoted(c) \o <<",", " ">>
    \o Quoted(<<"tags">>) \o <<":", " ", "[">> \o Quoted(g) \o <<"]", "}">>

\* the texts of TestParseResponse_EdgeCases, and a few more
SampleTexts ==
    {<<" ">> \o ArticleJSON(<<"Test">>, <<"Content">>, <<"tag">>) \o <<" ">>,
     <<"Some", " ", "preamble">> \o ArticleJSON(<<"Test">>, <<"Content">>, <<"tag">>),
     <<"{">> \o Quoted(<<"title">>) \o <<":">> \o Quoted(<<"Test">>),
     ArticleJSON(<<"First">>, <<"Content1">>, <<"a">>) \o <<" ">>
        \o ArticleJSON(<<"Second">>, <<"Content2">>, <<"b">>),
     ArticleJSON(<<"T">>, <<"func", "{", "}">>, <<"a">>) \o <<"x">>,
     <<"{">> \o Quoted(<<"title">>) \o <<":", "1", "}">>,
     <<"{">> \o Quoted(<<"tags">>) \o <<":", "[", "1", "]", "}">>,
     <<"{">> \o Quoted(<<"other">>) \o <<":", "{", "}", "}">>}

RawTexts == SeqsUpTo(ParseAlphabet, MaxRawLen) \cup SampleTexts

InitParse ==
    /\ pc = "parse"
    /\ RetryIdle
    /\ cerr = NoErr
    /\ cres = FALSE
    /\ raw \in RawTexts
    /\ parsed = Idle
    /\ payload = Idle
    /\ GenIdle
    /\ SelIdle
    /\ ExtIdle

ParseResponse ==
    /\ pc = "parse"
    /\ parsed' = parseResponse(raw)
    /\ pc' = "parsed"
    /\ UNCHANGED <<apiURL, ctxErr, attempt, backoff, lastErr, ret, attempts, waits,
                   lastOutcome, allRetryable, cancelledAt, aborted, cerr, cres, raw,
                   payload, genVars, selVars,
                   extVars>>

NextParse == ParseResponse

SpecParse == InitParse /\ [][NextParse]_vars

HasBraces(s) == Index(s, "{") # -1 /\ LastIndex(s, "}") # -1

\* the text from the first "{" to the last "}" is one JSON object
SpanIsObject(s) ==
    /\ HasBraces(s)
    /\ Index(s, "{") <= LastIndex(s, "}")
    /\ IsJSONObject(SubSeq(s, Index(s, "{") + 1, LastIndex(s, "}") + 1))

\* C9: parseResponse returns an article only if the raw text has a "{" and
\* a "}" and the text from the first "{" to the last "}" decodes as one JSON
\* object; in every other case it returns an error and no article.
C9_ArticleOnlyFromObject ==
    pc = "parsed" =>
        /\ parsed.kind = "article" => SpanIsObject(raw)
        /\ ~SpanIsObject(raw) => parsed.kind = "error"

\* C10: for a raw text with both braces whose last "}" comes before its
\* first "{", parseResponse returns an error value and no article.
C10_ReversedBracesError ==
    (pc = "parsed" /\ HasBraces(raw) /\ LastIndex(raw, "}") < Index(raw, "{"))
        => parsed.kind = "error"

----------------------------------------------------------------------------
(* The configuration: topics and style *)

TopicConfig(n, d, k, w) ==
    [Name |-> n, Description |-> d, Keywords |-> k, Weight |-> w]

\* c.Style, with the defaults of Load
Style ==
    [Tone |-> <<"professional">>, Length |-> <<"medium">>,
     TargetAudience |-> <<"intermediate">>, IncludeCode |-> TRUE]

\* a *TopicConfig: nil, or the topic
NilTopic == [nil |-> TRUE, Description |-> <<>>, Keywords |-> <<>>]

\* GetTopicDetails: the first topic of that name, nil if there is none
GetTopicDetails(ts, name) ==
    LET at == {i \in 1..Len(ts) : ts[i].Name = name}
    IN  IF at = {} THEN NilTopic
        ELSE LET i == CHOOSE a \in at : \A b \in at : a <= b
             IN  [nil |-> FALSE, Description |-> ts[i].Description,
                  Keywords |-> ts[i].Keywords]

\* strings.Join(xs, sep), from element i on
RECURSIVE Join(_, _, _)
Join(xs, sep, i) ==
    IF i > Len(xs) THEN <<>>
    ELSE xs[i] \o (IF i < Len(xs) THEN sep ELSE <<>>) \o Join(xs, sep, i + 1)

----------------------------------------------------------------------------
(* text/template, as far as the prompt template uses it.  A template text  *)
(* is a sequence of symbols: an action {{...}} is one symbol, "{{" is an   *)
(* action that is never closed, any other symbol is literal text.          *)

FieldActions ==
    {"{{.Topic}}", "{{.TopicDescription}}", "{{.Keywords}}", "{{.Tone}}",
     "{{.Length}}", "{{.TargetAudience}}"}

IfActions ==
    {"{{if .TopicDescription}}", "{{if .Keywords}}", "{{if .IncludeCode}}",
     "{{if .PreviousTitles}}"}

RangeAction == "{{range .PreviousTitles}}"

\* actions the parser rejects
MalformedActions == {"{{", "{{.Topic}"}

\* template.Parse: every action is well formed, every if and range has its
\* end, and no end stands alone
RECURSIVE ParseTemplate(_, _, _)
ParseTemplate(c, i, depth) ==
    IF i > Len(c) THEN depth = 0
    ELSE IF c[i] \in MalformedActions THEN FALSE
    ELSE IF c[i] \in IfActions \cup {RangeAction} THEN ParseTemplate(c, i + 1, depth + 1)
    ELSE IF c[i] = "{{end}}" THEN depth > 0 /\ ParseTemplate(c, i + 1, depth - 1)
    ELSE ParseTemplate(c, i + 1, depth)

\* the data handed to the template
PromptData(t, d, pt) ==
    [Topic |-> t,
     TopicDescription |-> IF d.nil THEN <<>> ELSE d.Description,
     Keywords |-> IF ~d.nil /\ Len(d.Keywords) > 0
                  THEN Join(d.Keywords, <<", ">>, 1) ELSE <<>>,
     Tone |-> Style.Tone,
     Length |-> Style.Length,
     TargetAudience |-> Style.TargetAudience,
     IncludeCode |-> Style.IncludeCode,
     PreviousTitles |-> pt]

FieldValue(x, data) ==
    CASE x = "{{.Topic}}" -> data.Topic
      [] x = "{{.TopicDescription}}" -> data.TopicDescription
      [] x = "{{.Keywords}}" -> data.Keywords
      [] x = "{{.Tone}}" -> data.Tone
      [] x = "{{.Length}}" -> data.Length
      [] OTHER -> data.TargetAudience

\* the truth of an if's pipeline: a non-empty string or slice, a true bool
Truth(x, data) ==
    CASE x = "{{if .TopicDescription}}" -> data.TopicDescription # <<>>
      [] x = "{{if .Keywords}}" -> data.Keywords # <<>>
      [] x = "{{if .IncludeCode}}" -> data.IncludeCode
      [] OTHER -> Len(data.PreviousTitles) > 0

\* a control structure being executed: live when its body is executed; a
\* range remembers where its body starts and which element is the dot
Frame(r, l, st, k) == [range |-> r, live |-> l, start |-> st, k |-> k]

Live(stack) == stack = <<>> \/ stack[Len(stack)].live

\* the dot is an element of PreviousTitles
InRange(stack) == \E j \in 1..Len(stack) : stack[j].range /\ stack[j].live

\* the element the innermost range stands at
DotIndex(stack) ==
    LET at == {j \in 1..Len(stack) : stack[j].range /\ stack[j].live}
    IN  stack[CHOOSE a \in at : \A b \in at : a >= b].k

\* tmpl.Execute from symbol i on: the text written so far, and whether the
\* execution succeeded.  Evaluating a field the data does not have, or a
\* field of a title (a string), is an execution error.
RECURSIVE Exec(_, _, _, _, _)
Exec(c, i, data, stack, out) ==
    IF i > Len(c) THEN [ok |-> TRUE, out |-> out]
    ELSE LET x == c[i]
             live == Live(stack)
             fails == [ok |-> FALSE, out |-> out]
         IN  CASE x \in IfActions ->
                    IF live /\ InRange(stack) THEN fails
                    ELSE Exec(c, i + 1, data,
                              Append(stack, Frame(FALSE, live /\ Truth(x, data), i, 0)), out)
               [] x = RangeAction ->
                    IF live /\ InRange(stack) THEN fails
                    ELSE Exec(c, i + 1, data,
                              Append(stack, Frame(TRUE, live /\ Len(data.PreviousTitles) > 0,
                                                  i, 1)), out)
               [] x = "{{end}}" ->
                    LET f == stack[Len(stack)]
                    IN  IF f.range /\ f.live /\ f.k < Len(data.PreviousTitles)
                        THEN Exec(c, f.start + 1, data,
                                  [stack EXCEPT ![Len(stack)].k = f.k + 1], out)
                        ELSE Exec(c, i + 1, data, SubSeq(stack, 1, Len(stack) - 1), out)
               [] x = "{{.}}" ->
                    IF ~live THEN Exec(c, i + 1, data, stack, out)
                    ELSE IF InRange(stack)
                    THEN Exec(c, i + 1, data, stack,
                              out \o data.PreviousTitles[DotIndex(stack)])
                    ELSE Exec(c, i + 1, data, stack, Append(out, "{data}"))
               [] x \in FieldActions ->
                    IF ~live THEN Exec(c, i + 1, data, stack, out)
                    ELSE IF InRange(stack) THEN fails
                    ELSE Exec(c, i + 1, data, stack, out \o FieldValue(x, data))
               [] x = "{{.Missing}}" ->
                    IF live THEN fails ELSE Exec(c, i + 1, data, stack, out)
               [] OTHER ->
                    Exec(c, i + 1, data, stack, IF live THEN Append(out, x) ELSE out)

----------------------------------------------------------------------------
(* Prompt building *)

\* "- title\n" for each previous title from i on
RECURSIVE TitleLines(_, _)
TitleLines(pt, i) ==
    IF i > Len(pt) THEN <<>>
    ELSE <<"- ">> \o pt[i] \o <<"\n">> \o TitleLines(pt, i + 1)

buildPromptFallback(t, d, pt) ==
    <<"You are a technical writer creating an engaging article for Medium. ",
      "Write a ">> \o Style.Length \o <<" article about: ">> \o t \o <<"\n\n">>
    \o (IF ~d.nil /\ d.Description # <<>>
        THEN <<"Focus area: ">> \o d.Description \o <<"\n\n">>
             \o (IF Len(d.Keywords) > 0
                 THEN <<"Include these concepts: ">> \o Join(d.Keywords, <<", ">>, 1)
                      \o <<"\n\n">>
                 ELSE <<>>)
        ELSE <<>>)
    \o <<"Style requirements:\n", "- Tone: ">> \o Style.Tone
    \o <<"\n", "- Target audience: ">> \o Style.TargetAudience \o <<"\n">>
    \o (IF Style.IncludeCode THEN <<"- Include practical code examples\n">> ELSE <<>>)
    \o <<"\n">>
    \o (IF Len(pt) > 0
        THEN <<"Previously written articles on this topic (avoid duplicating):\n">>
             \o TitleLines(pt, 1) \o <<"\n">>
        ELSE <<>>)
    \o <<"Article requirements:\n", "Return your response in this JSON format:\n">>

\* what os.ReadFile gives for the template file
ReadError == [ok |-> FALSE, content |-> <<>>]
FileContent(c) == [ok |-> TRUE, content |-> c]

\* a variant that returns what was rendered before the execution failed
buildPromptFromTemplate_Partial(tpl, t, d, pt) ==
    IF ~tpl.ok THEN buildPromptFallback(t, d, pt)
    ELSE IF ~ParseTemplate(tpl.content, 1, 0) THEN buildPromptFallback(t, d, pt)
    ELSE Exec(tpl.content, 1, PromptData(t, d, pt), <<>>, <<>>).out

buildPromptFromTemplate(tpl, t, d, pt) ==
    IF ~tpl.ok THEN buildPromptFallback(t, d, pt)
    ELSE IF ~ParseTemplate(tpl.content, 1, 0) THEN buildPromptFallback(t, d, pt)
    ELSE LET r == Exec(tpl.content, 1, PromptData(t, d, pt), <<>>, <<>>)
         IN  IF ~r.ok THEN buildPromptFallback(t, d, pt) ELSE r.out

\* templates/article-prompt.md
ShippedTemplate ==
    <<"You are a technical writer creating an engaging article for Medium.\n\n",
      "Write a ", "{{.Length}}", " article about: ", "{{.Topic}}", "\n\n",
      "{{if .TopicDescription}}", "\nFocus area: ", "{{.TopicDescription}}", "\n",
      "{{end}}", "\n\n",
      "{{if .Keywords}}", "\nInclude these concepts: ", "{{.Keywords}}", "\n",
      "{{end}}", "\n\n",
      "Style requirements:\n", "- Tone: ", "{{.Tone}}", "\n",
      "- Target audience: ", "{{.TargetAudience}}", "\n",
      "{{if .IncludeCode}}",
      "- Include practical code examples with proper syntax highlighting\n",
      "{{end}}", "\n",
      "{{if .PreviousTitles}}",
      "\nPreviously written articles on this topic (avoid duplicating these angles):\n",
      "{{range .PreviousTitles}}", "- ", "{{.}}", "\n", "{{end}}", "\n", "{{end}}",
      "\n\n", "Article requirements:\n",
      "Return your response in this exact JSON format:\n">>

\* template files: the shipped one, one that does not exist, one that does
\* not parse (TestBuildPromptFromTemplate_InvalidTemplateSyntax), one whose
\* execution fails after some output, one whose execution fails only when
\* there are previous titles
CoreTemplates ==
    {FileContent(ShippedTemplate),
     ReadError,
     FileContent(<<"{{.Topic}", " - missing closing brace">>),
     FileContent(<<"Write about ", "{{.Missing}}", " and ", "{{.Topic}}">>),
     FileContent(<<"{{range .PreviousTitles}}", "{{.Topic}}", "{{end}}">>)}

\* more of them: an if without end, an end without if, a failure at the
\* first symbol, a failure inside an if, an empty file
Templates ==
    CoreTemplates \cup
    {FileContent(<<"Write about ", "{{.Topic}}", "{{if .Keywords}}", "x">>),
     FileContent(<<"Write about ", "{{.Topic}}", " ", "{{end}}">>),
     FileContent(<<"{{.Missing}}">>),
     FileContent(<<"{{if .PreviousTitles}}", "{{.Missing}}", "{{end}}", "Write.">>),
     FileContent(<<>>)}

----------------------------------------------------------------------------
(* Generate *)

\* an ArticleRecord of the history, as far as Generate reads it
ArticleRecord(title, tp) == [Title |-> title, Topic |-> tp]

\* a variant that puts each matching title in front
RECURSIVE TitlesOnTopic_Prepend(_, _, _, _)
TitlesOnTopic_Prepend(h, t, i, acc) ==
    IF i > Len(h) THEN acc
    ELSE TitlesOnTopic_Prepend(h, t, i + 1,
             IF h[i].Topic = t THEN <<h[i].Title>> \o acc ELSE acc)

\* the loop over history.Articles from entry i on: acc is previousTitles
RECURSIVE TitlesOnTopic(_, _, _, _)
TitlesOnTopic(h, t, i, acc) ==
    IF i > Len(h) THEN acc
    ELSE TitlesOnTopic(h, t, i + 1,
             IF h[i].Topic = t THEN Append(acc, h[i].Title) ELSE acc)

\* fmt.Errorf(stage + ": %w", e)
WrapError(stage, e) ==
    [kind |-> "wrapError", msg |-> <<stage, ": ">> \o e.msg,
     wraps |-> IF e.kind \in {"context.Canceled", "context.DeadlineExceeded"}
               THEN e.kind ELSE e.wraps,
     inner |-> e]

\* return nil, err
NilArticle(e) ==
    [kind |-> "error", err |-> e, Title |-> <<>>, Content |-> <<>>, Tags |-> <<>>,
     PublishedAt |-> 0]

\* the error value of a failed parseResponse
ParseErr(a) == ErrorOf(<<a.err>>)

\* what time.Now() may give, as seconds of the clock
Times == {1, 2}

\* Generate up to the API call: previous titles, topic details, prompt
BuildPrompt ==
    /\ pc = "generate"
    /\ previousTitles' = TitlesOnTopic(history, topic, 1, <<>>)
    /\ prompt' = buildPromptFromTemplate(template, topic,
                     GetTopicDetails(topics, topic), previousTitles')
    /\ pc' = "call"
    /\ UNCHANGED <<apiURL, ctxErr, attempt, backoff, lastErr, ret, attempts, waits,
                   lastOutcome, allRetryable, cancelledAt, aborted>>
    /\ UNCHANGED <<cerr, cres, raw, parsed, payload, selVars, extVars>>
    /\ UNCHANGED <<topics, template, topic, history, article>>

\* a variant that leaves the article as parseResponse built it
Finish_NoTimestamp ==
    /\ pc = "done"
    /\ article' = IF ret.kind = "err"
                  THEN NilArticle(WrapError("failed to call Claude API", ret.err))
                  ELSE LET a == parseResponse(ret.text)
                       IN  IF a.kind = "error"
                           THEN NilArticle(WrapError("failed to parse response", ParseErr(a)))
                           ELSE a
    /\ pc' = "returned"
    /\ UNCHANGED <<apiURL, ctxErr, attempt, backoff, lastErr, ret, attempts, waits,
                   lastOutcome, allRetryable, cancelledAt, aborted>>
    /\ UNCHANGED <<cerr, cres, raw, parsed, payload, selVars, extVars>>
    /\ UNCHANGED <<topics, template, topic, history, previousTitles, prompt>>

\* a variant that goes back to the API call when parsing fails
Finish_RetryParse ==
    /\ pc = "done"
    /\ IF ret.kind = "ok" /\ parseResponse(ret.text).kind # "article"
       THEN pc' = "call" /\ article' = article
       ELSE /\ pc' = "returned"
            /\ IF ret.kind = "err"
               THEN article' = NilArticle(WrapError("failed to call Claude API", ret.err))
               ELSE \E now \in Times :
                       article' = [parseResponse(ret.text) EXCEPT !.PublishedAt = now]
    /\ UNCHANGED <<apiURL, ctxErr, attempt, backoff, lastErr, ret, attempts, waits,
                   lastOutcome, allRetryable, cancelledAt, aborted>>
    /\ UNCHANGED <<cerr, cres, raw, parsed, payload, selVars, extVars>>
    /\ UNCHANGED <<topics, template, topic, history, previousTitles, prompt>>

\* Generate after callClaudeAPIWithRetry has returned: the API error wrapped,
\* or the text parsed and the parse error wrapped, or the article stamped
\* with time.Now(); a panic of parseResponse goes through Generate
Finish ==
    /\ pc = "done"
    /\ IF ret.kind = "err"
       THEN article' = NilArticle(WrapError("failed to call Claude API", ret.err))
       ELSE LET a == parseResponse(ret.text)
            IN  CASE a.kind = "panic" -> article' = a
                  [] a.kind = "error" ->
                        article' = NilArticle(WrapError("failed to parse response",
                                                        ParseErr(a)))
                  [] OTHER ->
                        \E now \in Times : article' = [a EXCEPT !.PublishedAt = now]
    /\ pc' = "returned"
    /\ UNCHANGED <<apiURL, ctxErr, attempt, backoff, lastErr, ret, attempts, waits,
                   lastOutcome, allRetryable, cancelledAt, aborted>>
    /\ UNCHANGED <<cerr, cres, raw, parsed, payload, selVars, extVars>>
    /\ UNCHANGED <<topics, template, topic, history, previousTitles, prompt>>

TopicNames == {<<"X">>, <<"Y">>}

HistTitles == {<<"A">>, <<"B">>, <<"C">>}

\* c.Topics: none (a Config built without Load), one topic with description
\* and keywords, a topic with keywords but no description
TopicLists ==
    {<<>>,
     <<TopicConfig(<<"X">>, <<"about X">>, <<<<"k1">>, <<"k2">>>>, 1)>>,
     <<TopicConfig(<<"X">>, <<>>, <<<<"k1">>>>, 1),
       TopicConfig(<<"Y">>, <<"about Y">>, <<>>, 2)>>}

\* the history of the example: X:A, Y:B, X:C
SampleHistory ==
    <<ArticleRecord(<<"A">>, <<"X">>), ArticleRecord(<<"B">>, <<"Y">>),
      ArticleRecord(<<"C">>, <<"X">>)>>

\* a call of Generate by a generator of NewGenerator
InitGenerate ==
    /\ pc = "generate"
    /\ apiURL = ProdURL
    /\ ctxErr \in {"nil", "context.Canceled", "context.DeadlineExceeded"}
    /\ attempt = 0
    /\ backoff = 0
    /\ lastErr = NoErr
    /\ ret = Pending
    /\ attempts = 0
    /\ waits = <<>>
    /\ lastOutcome = NoOutcome
    /\ allRetryable = TRUE
    /\ cancelledAt = (IF ctxErr = "nil" THEN "never" ELSE "before")
    /\ aborted = FALSE
    /\ cerr = NoErr
    /\ cres = FALSE
    /\ raw = Idle
    /\ parsed = Idle
    /\ payload = Idle
    /\ SelIdle
    /\ ExtIdle
    /\ topics = <<TopicConfig(<<"X">>, <<"about X">>, <<<<"k1">>, <<"k2">>>>, 1)>>
    /\ template \in CoreTemplates
    /\ topic \in TopicNames
    /\ history = SampleHistory
    /\ previousTitles = Idle
    /\ prompt = Idle
    /\ article = Idle

NextGenerate ==
    BuildPrompt \/ CallAPI \/ BackoffTimer \/ BackoffCancelled \/ Cancel \/ Finish

SpecGenerate == InitGenerate /\ [][NextGenerate]_vars

\* Generate up to the API call, for every history of a bounded family
InitPrompt ==
    /\ pc = "generate"
    /\ RetryIdle
    /\ cerr = NoErr
    /\ cres = FALSE
    /\ raw = Idle
    /\ parsed = Idle
    /\ payload = Idle
    /\ SelIdle
    /\ ExtIdle
    /\ topics \in TopicLists
    /\ template \in Templates
    /\ topic \in TopicNames
    /\ \E h \in SeqsUpTo({ArticleRecord(a, t) : a \in HistTitles, t \in TopicNames},
                         MaxHistLen) : history = h
    /\ previousTitles = Idle
    /\ prompt = Idle
    /\ article = Idle

NextPrompt == BuildPrompt

SpecPrompt == InitPrompt /\ [][NextPrompt]_vars

----------------------------------------------------------------------------
(* Properties of Generate *)

\* the text callClaudeAPIWithRetry returned, parsed
ParsedText == parseResponse(ret.text)

\* C12: Generate returns an article if and only if the retried API call
\* succeeded and parsing its text succeeded; in every other run it returns
\* no article and an error that wraps the underlying error and whose message
\* names the failed stage, the API call or the parsing, by different texts.
C12_ArticleIffBothSucceed ==
    pc = "returned" =>
        /\ article.kind = "article" <=> (ret.kind = "ok" /\ ParsedText.kind = "article")
        /\ article.kind # "article" =>
              /\ article.kind = "error"
              /\ article.err.kind = "wrapError"
              /\ IF ret.kind = "err"
                 THEN /\ article.err.inner = ret.err
                      /\ article.err.msg[1] = "failed to call Claude API"
                 ELSE /\ article.err.inner = ParseErr(ParsedText)
                      /\ article.err.msg[1] = "failed to parse response"
        /\ "failed to call Claude API" # "failed to parse response"

\* C13: the creation timestamp is set only after parsing has succeeded:
\* parseResponse leaves it at the zero value, no article exists before
\* Generate returns, and every article Generate returns has a non-zero
\* timestamp.
C13_TimestampAfterParse ==
    /\ pc # "returned" => article = Idle
    /\ (pc \in {"done", "returned"} /\ ret.kind = "ok") => ParsedText.PublishedAt = 0
    /\ (pc = "returned" /\ article.kind = "article") =>
          /\ ParsedText.kind = "article"
          /\ article.PublishedAt # 0
          /\ article = [ParsedText EXCEPT !.PublishedAt = article.PublishedAt]

C13_Witness ==
    /\ pc = "returned"
    /\ article.kind = "article"
    /\ article.Title = <<"T">>
    /\ article.PublishedAt = 2

\* C14: once the API has returned a successful response text, Generate
\* issues no further API attempt, whether parsing that text succeeds or
\* fails: the next step is Generate's return.
C14_ParseFailureNotRetried ==
    [][ret.kind = "ok" =>
          /\ attempts' = attempts
          /\ ret' = ret
          /\ pc' = "returned"]_vars

C14_Witness ==
    /\ pc = "returned"
    /\ ret.kind = "ok"
    /\ attempts = 2
    /\ article.kind = "error"
    /\ article.err.msg[1] = "failed to parse response"

\* the entries of the history on the requested topic, in history order
OnTopic(e) == e.Topic = topic

\* C15: the previous titles Generate hands to prompt building are exactly
\* the titles of the history entries whose topic is the requested topic, in
\* history order (X:A, Y:B, X:C with topic X gives A, C).
C15_PreviousTitlesOfTopic ==
    pc = "call" =>
        /\ LET sel == SelectSeq(history, OnTopic)
           IN  previousTitles = [i \in 1..Len(sel) |-> sel[i].Title]
        /\ (history = SampleHistory /\ topic = <<"X">>)
              => previousTitles = <<<<"A">>, <<"C">>>>
        /\ prompt = buildPromptFromTemplate(template, topic,
                        GetTopicDetails(topics, topic), previousTitles)

C15_Witness ==
    /\ pc = "call"
    /\ history = SampleHistory
    /\ topic = <<"X">>
    /\ previousTitles = <<<<"A">>, <<"C">>>>
    /\ template = FileContent(ShippedTemplate)
    /\ Contains(prompt, <<"- ", "A", "\n", "- ", "C", "\n">>)

\* the template file cannot be read, or does not parse, or its execution
\* with the data of this call fails
TemplateFails ==
    \/ ~template.ok
    \/ ~ParseTemplate(template.content, 1, 0)
    \/ ~Exec(template.content, 1,
             PromptData(topic, GetTopicDetails(topics, topic), previousTitles),
             <<>>, <<>>).ok

\* C19: prompt building never fails: when the template cannot be read,
\* cannot be parsed, or fails while rendering, the prompt is the built-in
\* fallback prompt, which is not empty and contains the topic, and Generate
\* goes on to the API call: it never returns without an API attempt.
C19_FallbackPrompt ==
    /\ (pc # "generate" /\ TemplateFails) =>
          /\ prompt = buildPromptFallback(topic, GetTopicDetails(topics, topic),
                                          previousTitles)
          /\ prompt # <<>>
          /\ Contains(prompt, <<" article about: ">> \o topic)
    /\ (pc = "call" /\ attempts = 0) => ret = Pending
    /\ pc \in {"done", "returned"} => attempts >= 1

C19_Witness ==
    /\ pc = "returned"
    /\ template = FileContent(<<"Write about ", "{{.Missing}}", " and ", "{{.Topic}}">>)
    /\ attempts >= 1
    /\ Contains(prompt, <<"Write a ", "medium", " article about: ", "Y">>)

----------------------------------------------------------------------------
(* SelectRandomTopic.  Go's int has 64 bits and its arithmetic wraps; the   *)
(* model's int has IntBits bits and wraps the same way.                    *)

MaxInt == Pow2(IntBits - 1) - 1

\* a sum as an int holds it
WrapInt(x) == ((x + Pow2(IntBits - 1)) % Pow2(IntBits)) - Pow2(IntBits - 1)

\* weight := topic.Weight; if weight <= 0 { weight = 1 }
NormalWeight(w) == IF w <= 0 THEN 1 ELSE w

\* the first loop: totalWeight after the topics from i on, acc so far
RECURSIVE TotalWeight(_, _, _)
TotalWeight(ts, i, acc) ==
    IF i > Len(ts) THEN acc
    ELSE TotalWeight(ts, i + 1, WrapInt(acc + NormalWeight(ts[i].Weight)))

\* the second loop from topic i on: the index of the topic returned for the
\* draw r, and Topics[0] when the loop ends without a return
RECURSIVE PickFrom(_, _, _, _)
PickFrom(ts, r, i, current) ==
    IF i > Len(ts) THEN 1
    ELSE LET cur == WrapInt(current + NormalWeight(ts[i].Weight))
         IN  IF r < cur THEN i ELSE PickFrom(ts, r, i + 1, cur)

DefaultTopic == <<"Software Engineering Best Practices">>

Selected(n) == [kind |-> "name", name |-> n]

\* r.Intn(n) with n <= 0 panics: no name is returned
IntnPanic == [kind |-> "panic", name |-> <<"invalid argument to Intn">>]

\* a variant without the check for an empty list
SelectRandomTopic_NoEmptyCheck ==
    /\ pc = "select"
    /\ LET total == TotalWeight(topics, 1, 0)
       IN  IF total <= 0
           THEN selected' = IntnPanic /\ random' = random
           ELSE \E r \in 0..(total - 1) :
                   /\ random' = r
                   /\ selected' = Selected(topics[PickFrom(topics, r, 1, 0)].Name)
    /\ pc' = "selected"
    /\ UNCHANGED <<apiURL, ctxErr, attempt, backoff, lastErr, ret, attempts, waits,
                   lastOutcome, allRetryable, cancelledAt, aborted>>
    /\ UNCHANGED <<cerr, cres, raw, parsed, payload, genVars, extVars>>

\* a variant that writes the normalized weights back into the topic list
SelectRandomTopic_Normalizing ==
    /\ pc = "select"
    /\ IF Len(topics) = 0
       THEN selected' = Selected(DefaultTopic) /\ random' = random
       ELSE LET total == TotalWeight(topics, 1, 0)
            IN  IF total <= 0
                THEN selected' = IntnPanic /\ random' = random
                ELSE \E r \in 0..(total - 1) :
                        /\ random' = r
                        /\ selected' = Selected(topics[PickFrom(topics, r, 1, 0)].Name)
    /\ topics' = [i \in 1..Len(topics) |->
                     [topics[i] EXCEPT !.Weight = NormalWeight(topics[i].Weight)]]
    /\ pc' = "selected"
    /\ UNCHANGED <<apiURL, ctxErr, attempt, backoff, lastErr, ret, attempts, waits,
                   lastOutcome, allRetryable, cancelledAt, aborted>>
    /\ UNCHANGED <<cerr, cres, raw, parsed, payload, extVars>>
    /\ UNCHANGED <<template, topic, history, previousTitles, prompt, article>>

SelectRandomTopic ==
    /\ pc = "select"
    /\ IF Len(topics) = 0
       THEN selected' = Selected(DefaultTopic) /\ random' = random
       ELSE LET total == TotalWeight(topics, 1, 0)
            IN  IF total <= 0
                THEN selected' = IntnPanic /\ random' = random
                ELSE \E r \in 0..(total - 1) :
                        /\ random' = r
                        /\ selected' = Selected(topics[PickFrom(topics, r, 1, 0)].Name)
    /\ pc' = "selected"
    /\ UNCHANGED <<apiURL, ctxErr, attempt, backoff, lastErr, ret, attempts, waits,
                   lastOutcome, allRetryable, cancelledAt, aborted>>
    /\ UNCHANGED <<cerr, cres, raw, parsed, payload, genVars, extVars>>

\* weights a configuration file may give: negative, zero, small, the largest
Weights == {-1, 0, 1, 2, MaxInt}

InitSelect ==
    /\ pc = "select"
    /\ RetryIdle
    /\ cerr = NoErr
    /\ cres = FALSE
    /\ raw = Idle
    /\ parsed = Idle
    /\ payload = Idle
    /\ SelIdle
    /\ ExtIdle
    /\ \E ts \in SeqsUpTo({TopicConfig(n, <<>>, <<>>, w) : n \in TopicNames, w \in Weights},
                          MaxTopics) : topics = ts
    /\ template = Idle
    /\ topic = Idle
    /\ history = Idle
    /\ previousTitles = Idle
    /\ prompt = Idle
    /\ article = Idle

NextSelect == SelectRandomTopic

SpecSelect == InitSelect /\ [][NextSelect]_vars

\* the sum of the normalized weights of the first i topics, as a number
RECURSIVE Cumulative(_, _)
Cumulative(ts, i) ==
    IF i = 0 THEN 0 ELSE Cumulative(ts, i - 1) + NormalWeight(ts[i].Weight)

\* C16: for every non-empty topic list, with any integer weights, and for
\* every draw, SelectRandomTopic returns the name of a topic of the list.
C16_ReturnsListedTopic ==
    (pc = "selected" /\ Len(topics) > 0) =>
        /\ selected.kind = "name"
        /\ \E i \in 1..Len(topics) : topics[i].Name = selected.name

\* C17: for every draw r in [0, totalWeight), totalWeight being the sum of
\* max(weight, 1) over the topics, SelectRandomTopic returns the first topic
\* in list order whose cumulative normalized weight exceeds r, so that topic
\* i is returned for exactly max(weight_i, 1) of the totalWeight draws.
C17_FirstTopicExceedingDraw ==
    (pc = "selected" /\ Len(topics) > 0) =>
        LET total == Cumulative(topics, Len(topics))
            first(r) == CHOOSE i \in 1..Len(topics) :
                            /\ Cumulative(topics, i) > r
                            /\ \A j \in 1..(i - 1) : Cumulative(topics, j) <= r
        IN  /\ selected.kind = "name"
            /\ TotalWeight(topics, 1, 0) = total
            /\ random \in 0..(total - 1)
            /\ selected.name = topics[first(random)].Name
            /\ \A i \in 1..Len(topics) :
                  Cardinality({r \in 0..(total - 1) : PickFrom(topics, r, 1, 0) = i})
                      = NormalWeight(topics[i].Weight)

\* C18: on an empty topic list SelectRandomTopic returns the fixed name
\* "Software Engineering Best Practices" and does not fail.
C18_EmptyListDefault ==
    (pc = "selected" /\ Len(topics) = 0) =>
        selected = Selected(<<"Software Engineering Best Practices">>)

C18_Witness ==
    /\ pc = "selected"
    /\ topics = <<>>
    /\ selected.kind = "name"
    /\ selected.name = DefaultTopic

----------------------------------------------------------------------------
(* parseResponse on the output the prompt asks for: one JSON object with   *)
(* title, content and tags, inside prose without braces                    *)

\* a string value as a JSON literal: quotes escaped, in quotes
EncodeString(v) ==
    Quoted([i \in 1..Len(v) |-> IF v[i] = "\"" THEN "\\\"" ELSE v[i]])

\* the literals of tags i.. separated by commas
RECURSIVE EncodeStrings(_, _)
EncodeStrings(tags, i) ==
    IF i > Len(tags) THEN <<>>
    ELSE EncodeString(tags[i])
         \o (IF i < Len(tags) THEN <<",", " ">> ELSE <<>>)
         \o EncodeStrings(tags, i + 1)

\* {"title": ..., "content": ..., "tags": [...]}
PayloadJSON(p) ==
    <<"{", " ">> \o Quoted(<<"title">>) \o <<":", " ">> \o EncodeString(p.Title)
    \o <<",", " ">> \o Quoted(<<"content">>) \o <<":", " ">> \o EncodeString(p.Content)
    \o <<",", " ">> \o Quoted(<<"tags">>) \o <<":", " ", "[">>
    \o EncodeStrings(p.Tags, 1) \o <<"]", " ", "}">>

PayloadTitles == {<<>>, <<"Test Article">>, <<"say ", "\"", "hi", "\"">>}

PayloadContents == {<<"Content">>, <<"func main() ", "{", "}">>, <<"}", " ", "{">>}

TagNames == {<<"go">>, <<"testing">>}

ProseAlphabet == {"x", "\""}

InitPayload ==
    /\ pc = "parse"
    /\ RetryIdle
    /\ cerr = NoErr
    /\ cres = FALSE
    /\ \E t \in PayloadTitles, c \in PayloadContents, g \in SeqsUpTo(TagNames, MaxTags) :
            payload = [Title |-> t, Content |-> c, Tags |-> g]
    /\ \E lead \in SeqsUpTo(ProseAlphabet, MaxProseLen),
          trail \in SeqsUpTo(ProseAlphabet, MaxProseLen) :
            raw = lead \o PayloadJSON(payload) \o trail
    /\ parsed = Idle
    /\ GenIdle
    /\ SelIdle
    /\ ExtIdle

NextPayload == ParseResponse

SpecPayload == InitPayload /\ [][NextPayload]_vars

\* C11: for a well-formed JSON object with title, content and tags inside
\* leading and trailing prose without braces, parseResponse returns an
\* article whose title, content and tags (same order) are the payload's.
C11_PayloadRoundTrip ==
    pc = "parsed" => parsed = ArticleOf(payload)

C11_Witness ==
    /\ pc = "parsed"
    /\ parsed.kind = "article"
    /\ parsed.Tags = <<<<"go">>, <<"testing">>>>
    /\ parsed.Content = <<"}", " ", "{">>
    /\ parsed.Title = <<"say ", "\"", "hi", "\"">>
    /\ raw[1] = "x" /\ raw[Len(raw)] = "\""

----------------------------------------------------------------------------
(* Generate by a generator of newTestGenerator: the API URL is the test     *)
(* server's, or the production endpoint                                     *)

InitGenerateTest ==
    /\ pc = "generate"
    /\ apiURL \in ApiURLs
    /\ ctxErr \in {"nil", "context.Canceled", "context.DeadlineExceeded"}
    /\ attempt = 0
    /\ backoff = 0
    /\ lastErr = NoErr
    /\ ret = Pending
    /\ attempts = 0
    /\ waits = <<>>
    /\ lastOutcome = NoOutcome
    /\ allRetryable = TRUE
    /\ cancelledAt = (IF ctxErr = "nil" THEN "never" ELSE "before")
    /\ aborted = FALSE
    /\ cerr = NoErr
    /\ cres = FALSE
    /\ raw = Idle
    /\ parsed = Idle
    /\ payload = Idle
    /\ SelIdle
    /\ ExtIdle
    /\ topics = <<>>
    /\ template \in {ReadError, FileContent(ShippedTemplate)}
    /\ topic = <<"X">>
    /\ history \in {<<>>, SampleHistory}
    /\ previousTitles = Idle
    /\ prompt = Idle
    /\ article = Idle

SpecGenerateTest == InitGenerateTest /\ [][NextGenerate]_vars

\* C21: when the context is already cancelled (or past its deadline) at the
\* call of Generate, no backoff wait is ever completed, and what Generate
\* returns is an error and no article.
C21_CancelledBeforeCall ==
    cancelledAt = "before" =>
        /\ waits = <<>>
        /\ pc = "returned" => article.kind = "error"

\* Generate has returned with the context cancelled before the call, after a
\* backoff wait was started and given up
C21_Witness ==
    /\ pc = "returned"
    /\ cancelledAt = "before"
    /\ aborted
    /\ article.kind = "error"

----------------------------------------------------------------------------
(* callClaudeAPI alone: one attempt, for any response                       *)

\* any response: the status, the body text, whether the body is JSON and the
\* texts of its content list vary independently
AnyOutcomes ==
    {Outcome("http", NoErr, st, b, j, c) :
        st \in Statuses, b \in Bodies, j \in BOOLEAN, c \in SeqsUpTo(RespTexts, 2)}
    \cup NetOutcomes \cup CtxOutcomes("context.Canceled")

InitAttempt ==
    /\ pc = "attempt"
    /\ apiURL = ProdURL
    /\ ctxErr = "nil"
    /\ attempt = 0
    /\ backoff = 0
    /\ lastErr = NoErr
    /\ ret = Pending
    /\ attempts = 0
    /\ waits = <<>>
    /\ \E o \in AnyOutcomes : lastOutcome = o
    /\ allRetryable = TRUE
    /\ cancelledAt = "never"
    /\ aborted = FALSE
    /\ cerr = NoErr
    /\ cres = FALSE
    /\ raw = Idle
    /\ parsed = Idle
    /\ payload = Idle
    /\ GenIdle
    /\ SelIdle
    /\ ExtIdle

\* g.callClaudeAPI(ctx, systemPrompt, userPrompt) on the response lastOutcome
Attempt ==
    /\ pc = "attempt"
    /\ LET r == callClaudeAPI(apiURL, lastOutcome)
       IN  ret' = IF r.err = NoErr THEN Ok(r.text) ELSE Err(r.err)
    /\ pc' = "attempted"
    /\ UNCHANGED <<apiURL, ctxErr, attempt, backoff, lastErr, attempts, waits,
                   lastOutcome, allRetryable, cancelledAt, aborted>>
    /\ UNCHANGED pureVars

NextAttempt == Attempt

SpecAttempt == InitAttempt /\ [][NextAttempt]_vars

\* the error says "API request failed with status ..."
IsStatusError(e) == e.kind = "error" /\ e.msg # <<>> /\ e.msg[1] = "API request failed with "

\* C26: for every HTTP response, callClaudeAPI reports a status failure
\* exactly when the status is not 2xx; a 2xx response whose body is JSON with
\* a non-empty content list gives the first text as success, and a non-2xx
\* response gives the error carrying the status code and the body text.
C26_StatusFailureIffNon2xx ==
    (pc = "attempted" /\ lastOutcome.kind = "http") =>
        LET o == lastOutcome
            is2xx == o.status \in 200..299
        IN  /\ (ret.kind = "err" /\ IsStatusError(ret.err)) <=> ~is2xx
            /\ (is2xx /\ o.json /\ Len(o.content) > 0) => ret = Ok(o.content[1])
            /\ ~is2xx => ret = Err(StatusError(o.status, o.body))

----------------------------------------------------------------------------
(* The keyword section of the two prompt builders *)

\* the prompt p has the line "Include these concepts: " with the keywords kw
ListsKeywords(p, kw) ==
    \/ Contains(p, <<"Include these concepts: ">> \o Join(kw, <<", ">>, 1))
    \/ Contains(p, <<"\nInclude these concepts: ">> \o Join(kw, <<", ">>, 1))

\* C27: the fallback prompt and the prompt rendered from the shipped template
\* include the keyword section under the same condition: the prompt lists
\* the keywords of the topic's details exactly when that keyword list is not
\* empty, also when the topic's description is empty.
C27_KeywordSectionSameCondition ==
    (pc = "call" /\ (TemplateFails \/ template = FileContent(ShippedTemplate))) =>
        LET d == GetTopicDetails(topics, topic)
        IN  ListsKeywords(prompt, d.Keywords) <=> (~d.nil /\ Len(d.Keywords) > 0)

----------------------------------------------------------------------------
(* Termination of callClaudeAPIWithRetry *)

\* every attempt ends (the client has a timeout) and every backoff wait ends,
\* by its timer or by the context; the context itself need never end
SpecLive ==
    /\ Init
    /\ [][Next]_vars
    /\ WF_vars(CallAPI)
    /\ WF_vars(BackoffTimer)
    /\ WF_vars(BackoffCancelled)

\* the four return statements of callClaudeAPIWithRetry
ReturnsText == ret.kind = "ok" /\ ret.text = lastOutcome.content[1]

ReturnsAttemptError ==
    /\ ret = Err(AttemptErr)
    /\ ~isRetryableError(AttemptErr)
    /\ ~aborted

ReturnsCtxError == aborted /\ ret = Err(CtxError(ctxErr))

ReturnsMaxRetries == IsMaxRetries(ret) /\ ret.err.inner = lastErr /\ ~aborted

ReturnCount ==
    (IF ReturnsText THEN 1 ELSE 0) + (IF ReturnsAttemptError THEN 1 ELSE 0)
    + (IF ReturnsCtxError THEN 1 ELSE 0) + (IF ReturnsMaxRetries THEN 1 ELSE 0)

\* C30: when every attempt and every backoff wait ends, the call returns,
\* and whenever it has returned it is by exactly one of: the response text,
\* the non-retryable error of the latest attempt, the context's error, the
\* "max retries exceeded" error.
C30_TerminatesInOneOutcome ==
    /\ <>(pc = "done")
    /\ [](pc = "done" => ReturnCount = 1)

\* the call has returned the context's error after a wait was cut short
C30_Witness ==
    /\ pc = "done"
    /\ ReturnsCtxError
    /\ ReturnCount = 1
    /\ waits = <<2>>

----------------------------------------------------------------------------
(* Configuration: Load, Validate, loadTopicsFromCSV *)

\* the variables of callClaudeAPIWithRetry other than pc
callVars == <<apiURL, ctxErr, attempt, backoff, lastErr, ret, attempts, waits,
              lastOutcome, allRetryable, cancelledAt, aborted>>

\* a *float64: nil or a value, in tenths
NilFloat == [nil |-> TRUE, value |-> 0]
FloatPtr(v) == [nil |-> FALSE, value |-> v]

AIConfig(m, mt, t, to) ==
    [Model |-> m, MaxTokens |-> mt, Temperature |-> t, TimeoutSeconds |-> to]

StyleConfig(tone, length, audience, code) ==
    [Tone |-> tone, Length |-> length, TargetAudience |-> audience, IncludeCode |-> code]

APIKeysConfig(a, m) == [Anthropic |-> a, Medium |-> m]

Config(keys, ai, ts, st, tf, pt, sp) ==
    [APIKeys |-> keys, AI |-> ai, Topics |-> ts, Style |-> st, TopicsFile |-> tf,
     PromptTemplate |-> pt, SystemPrompt |-> sp]

\* return nil, err
NilConfig == [nil |-> TRUE]

\* os.Stat(path), os.Open(path) succeed
Exists(path, e) == path # <<>> /\ path \notin e.missing

\* strings.TrimSpace
RECURSIVE TrimLeft(_)
TrimLeft(t) == IF t # <<>> /\ t[1] = " " THEN TrimLeft(Tail(t)) ELSE t

RECURSIVE TrimRight(_)
TrimRight(t) ==
    IF t # <<>> /\ t[Len(t)] = " " THEN TrimRight(SubSeq(t, 1, Len(t) - 1)) ELSE t

TrimSpace(t) == TrimRight(TrimLeft(t))

\* strings.ToLower, on the column names used
ToLower(t) ==
    [i \in 1..Len(t) |->
        CASE t[i] = "Name" -> "name"
          [] t[i] = "WEIGHT" -> "weight"
          [] OTHER -> t[i]]

DecimalDigits == <<"0", "1", "2", "3", "4", "5", "6", "7", "8", "9">>

IsDecimal(ch) == \E d \in 1..10 : DecimalDigits[d] = ch

DecimalValue(ch) == (CHOOSE d \in 1..10 : DecimalDigits[d] = ch) - 1

RECURSIVE AtoiDigits(_, _, _)
AtoiDigits(t, i, acc) ==
    IF i > Len(t) THEN acc ELSE AtoiDigits(t, i + 1, acc * 10 + DecimalValue(t[i]))

\* strconv.Atoi: an optional sign and decimal digits
Atoi(t) ==
    LET signed == t # <<>> /\ t[1] \in {"-", "+"}
        digits == IF signed THEN Tail(t) ELSE t
    IN  IF digits = <<>> \/ \E i \in 1..Len(digits) : ~IsDecimal(digits[i])
        THEN [ok |-> FALSE, value |-> 0]
        ELSE [ok |-> TRUE,
              value |-> IF signed /\ t[1] = "-"
                        THEN 0 - AtoiDigits(digits, 1, 0)
                        ELSE AtoiDigits(digits, 1, 0)]

\* strings.Split(keywordsStr, ","), each part trimmed, the empty ones dropped
RECURSIVE SplitKeywords(_, _, _, _)
SplitKeywords(t, i, cur, acc) ==
    LET push == IF TrimSpace(cur) # <<>> THEN Append(acc, TrimSpace(cur)) ELSE acc
    IN  IF i > Len(t) THEN push
        ELSE IF t[i] = "," THEN SplitKeywords(t, i + 1, <<>>, push)
        ELSE SplitKeywords(t, i + 1, Append(cur, t[i]), acc)

\* the index of the last header column named col, 0 for none
RECURSIVE ColumnIndex(_, _, _, _)
ColumnIndex(header, col, i, found) ==
    IF i > Len(header) THEN found
    ELSE ColumnIndex(header, col, i + 1,
                     IF ToLower(TrimSpace(header[i])) = <<col>> THEN i ELSE found)

\* the topic of one data row
RowTopic(record, nameIdx, descIdx, keywordsIdx, weightIdx) ==
    [Name |-> TrimSpace(record[nameIdx]),
     Description |-> IF descIdx # 0 /\ Len(record) >= descIdx
                     THEN TrimSpace(record[descIdx]) ELSE <<>>,
     Keywords |-> IF keywordsIdx # 0 /\ Len(record) >= keywordsIdx
                  THEN SplitKeywords(TrimSpace(record[keywordsIdx]), 1, <<>>, <<>>)
                  ELSE <<>>,
     Weight |-> IF weightIdx # 0 /\ Len(record) >= weightIdx
                   /\ Atoi(TrimSpace(record[weightIdx])).ok
                THEN Atoi(TrimSpace(record[weightIdx])).value
                ELSE 1]

\* the loop over records[1:]
RECURSIVE RowTopics(_, _, _, _, _, _, _)
RowTopics(records, i, nameIdx, descIdx, keywordsIdx, weightIdx, acc) ==
    IF i > Len(records) THEN acc
    ELSE LET skip == Len(records[i]) < nameIdx
             t == RowTopic(records[i], nameIdx, descIdx, keywordsIdx, weightIdx)
         IN  RowTopics(records, i + 1, nameIdx, descIdx, keywordsIdx, weightIdx,
                       IF skip \/ t.Name = <<>> THEN acc ELSE Append(acc, t))

loadTopicsFromCSV(path, e) ==
    IF ~Exists(path, e)
    THEN [topics |-> <<>>,
          err |-> ErrorOf(<<"open ">> \o path \o <<": no such file or directory">>)]
    ELSE IF ~e.csv.ok
    THEN [topics |-> <<>>, err |-> ErrorOf(<<"record on line 2: wrong number of fields">>)]
    ELSE IF Len(e.csv.records) < 2
    THEN [topics |-> <<>>,
          err |-> ErrorOf(<<"CSV file must have header and at least one data row">>)]
    ELSE LET header == e.csv.records[1]
             nameIdx == ColumnIndex(header, "name", 1, 0)
         IN  IF nameIdx = 0
             THEN [topics |-> <<>>, err |-> ErrorOf(<<"CSV must have 'name' column">>)]
             ELSE [topics |-> RowTopics(e.csv.records, 2, nameIdx,
                                        ColumnIndex(header, "description", 1, 0),
                                        ColumnIndex(header, "keywords", 1, 0),
                                        ColumnIndex(header, "weight", 1, 0), <<>>),
                   err |-> NoErr]

getDefaultTopics ==
    <<TopicConfig(DefaultTopic, <<"General best practices in software development">>,
                  <<<<"clean code">>, <<"testing">>, <<"architecture">>>>, 1)>>

\* Validate: the AI settings and the file paths; the messages are given
\* without their formatted values
SettingsError(c, e) ==
    IF c.AI.MaxTokens < 1 \/ c.AI.MaxTokens > 200000
    THEN ErrorOf(<<"ai.max_tokens must be between 1 and 200000">>)
    ELSE IF ~c.AI.Temperature.nil
            /\ (c.AI.Temperature.value < 0 \/ c.AI.Temperature.value > 10)
    THEN ErrorOf(<<"ai.temperature must be between 0.0 and 1.0">>)
    ELSE IF c.AI.TimeoutSeconds < 1 \/ c.AI.TimeoutSeconds > 600
    THEN ErrorOf(<<"ai.timeout_seconds must be between 1 and 600">>)
    ELSE IF c.AI.Model = <<>>
    THEN ErrorOf(<<"ai.model cannot be empty">>)
    ELSE IF ~Exists(c.PromptTemplate, e)
    THEN ErrorOf(<<"prompt_template file not found: ">> \o c.PromptTemplate)
    ELSE IF ~Exists(c.SystemPrompt, e)
    THEN ErrorOf(<<"system_prompt file not found: ">> \o c.SystemPrompt)
    ELSE IF c.TopicsFile # <<>> /\ ~Exists(c.TopicsFile, e)
    THEN ErrorOf(<<"topics_file not found: ">> \o c.TopicsFile)
    ELSE NoErr

\* Validate: the loop over c.Topics
RECURSIVE TopicError(_, _)
TopicError(ts, i) ==
    IF i > Len(ts) THEN NoErr
    ELSE IF ts[i].Name = <<>> THEN ErrorOf(<<"topic has empty name">>)
    ELSE IF ts[i].Weight < 0
    THEN ErrorOf(<<"topic ">> \o ts[i].Name \o <<" has negative weight">>)
    ELSE TopicError(ts, i + 1)

\* a variant that does not look at the topics
Validate_SkipTopics(c, e) == SettingsError(c, e)

Validate(c, e) ==
    IF SettingsError(c, e) # NoErr THEN SettingsError(c, e)
    ELSE IF Len(c.Topics) = 0
    THEN ErrorOf(<<"at least one topic must be configured">>)
    ELSE TopicError(c.Topics, 1)

\* Load after yaml.Unmarshal: the defaults
WithDefaults(c) ==
    [c EXCEPT
        !.AI = AIConfig(IF @.Model = <<>> THEN <<"claude-sonnet-4-20250514">> ELSE @.Model,
                        IF @.MaxTokens = 0 THEN 8192 ELSE @.MaxTokens,
                        IF @.Temperature.nil THEN FloatPtr(10) ELSE @.Temperature,
                        IF @.TimeoutSeconds = 0 THEN 120 ELSE @.TimeoutSeconds),
        !.Style = StyleConfig(IF @.Tone = <<>> THEN <<"professional">> ELSE @.Tone,
                              IF @.Length = <<>> THEN <<"medium">> ELSE @.Length,
                              IF @.TargetAudience = <<>> THEN <<"intermediate">>
                              ELSE @.TargetAudience,
                              @.IncludeCode),
        !.PromptTemplate = IF @ = <<>> THEN <<"templates/article-prompt.md">> ELSE @,
        !.SystemPrompt = IF @ = <<>> THEN <<"templates/system-prompt.md">> ELSE @]

\* Load after the topics: the environment variables take precedence
WithEnv(c, e) ==
    [c EXCEPT
        !.APIKeys = APIKeysConfig(
            IF e.ANTHROPIC_API_KEY # <<>> THEN e.ANTHROPIC_API_KEY ELSE @.Anthropic,
            IF e.MEDIUM_TOKEN # <<>> THEN e.MEDIUM_TOKEN ELSE @.Medium)]

Load(doc, e) ==
    CASE doc.kind = "readError" ->
            [config |-> NilConfig,
             err |-> ErrorOf(<<"open config.yaml: no such file or directory">>)]
      [] doc.kind = "yamlError" ->
            [config |-> NilConfig, err |-> ErrorOf(<<"yaml: unmarshal errors">>)]
      [] OTHER ->
            LET c1 == WithDefaults(doc.config)
                csv == IF c1.TopicsFile # <<>>
                       THEN loadTopicsFromCSV(c1.TopicsFile, e)
                       ELSE [topics |-> <<>>, err |-> NoErr]
                c2 == [c1 EXCEPT !.Topics = IF Len(csv.topics) > 0 THEN csv.topics ELSE @]
                c3 == [c2 EXCEPT !.Topics = IF Len(@) = 0 THEN getDefaultTopics ELSE @]
                c4 == WithEnv(c3, e)
            IN  IF csv.err # NoErr
                THEN [config |-> NilConfig,
                      err |-> WrapError("failed to load topics from CSV", csv.err)]
                ELSE IF Validate(c4, e) # NoErr
                THEN [config |-> NilConfig,
                      err |-> WrapError("invalid configuration", Validate(c4, e))]
                ELSE [config |-> c4, err |-> NoErr]

\* cfg.Validate()
ValidateConfig ==
    /\ pc = "validate"
    /\ cfgErr' = Validate(config, env)
    /\ pc' = "validated"
    /\ UNCHANGED <<callVars, cerr, cres, raw, parsed, payload, genVars, selVars>>
    /\ UNCHANGED <<yaml, env, config, pubVars, mainVars>>

\* cfg, err := Load(path)
LoadConfig ==
    /\ pc = "load"
    /\ config' = Load(yaml, env).config
    /\ cfgErr' = Load(yaml, env).err
    /\ pc' = "loaded"
    /\ UNCHANGED <<callVars, cerr, cres, raw, parsed, payload, genVars, selVars>>
    /\ UNCHANGED <<yaml, env, pubVars, mainVars>>

\* file paths a configuration may name
PromptPath == <<"prompts/article.md">>
SystemPath == <<"prompts/system.md">>
CsvPath == <<"topics.csv">>

\* AI settings: none given, valid ones, and one out of range in each field
AISettings ==
    {AIConfig(<<>>, 0, NilFloat, 0),
     AIConfig(<<"claude-sonnet-4-20250514">>, 8192, FloatPtr(10), 120),
     AIConfig(<<"claude-sonnet-4-20250514">>, 200001, FloatPtr(5), 120),
     AIConfig(<<"claude-sonnet-4-20250514">>, 100, FloatPtr(11), 120),
     AIConfig(<<"claude-sonnet-4-20250514">>, 100, FloatPtr(0), 601)}

\* topic lists of a Config: the one of the test case "invalid topic weight"
\* among them
ConfigTopics ==
    {<<>>,
     <<TopicConfig(<<"Test">>, <<>>, <<>>, 0)>>,
     <<TopicConfig(<<"X">>, <<"about X">>, <<<<"k1">>>>, 1)>>,
     <<TopicConfig(<<"X">>, <<>>, <<>>, 0 - 1)>>,
     <<TopicConfig(<<>>, <<>>, <<>>, 1)>>,
     <<TopicConfig(<<"X">>, <<>>, <<>>, 0), TopicConfig(<<"Y">>, <<"about Y">>, <<>>, 2)>>}

NoStyle == StyleConfig(<<>>, <<>>, <<>>, FALSE)

NoCsv == [ok |-> FALSE, records |-> <<>>]

\* a Config built by the caller, as the tests of Validate do
InitValidate ==
    /\ pc = "validate"
    /\ RetryIdle
    /\ cerr = NoErr
    /\ cres = FALSE
    /\ raw = Idle
    /\ parsed = Idle
    /\ payload = Idle
    /\ GenIdle
    /\ SelIdle
    /\ yaml = Idle
    /\ \E ai \in AISettings, ts \in ConfigTopics, tf \in {<<>>, CsvPath},
          pt \in {<<>>, PromptPath}, sp \in {<<>>, SystemPath} :
            config = Config(APIKeysConfig(<<>>, <<>>), ai, ts, NoStyle, tf, pt, sp)
    /\ \E m \in {{}, {PromptPath}, {SystemPath}, {CsvPath}} :
            env = [missing |-> m, csv |-> NoCsv,
                   ANTHROPIC_API_KEY |-> <<>>, MEDIUM_TOKEN |-> <<>>]
    /\ cfgErr = Idle
    /\ PubIdle
    /\ MainIdle

NextValidate == ValidateConfig

SpecValidate == InitValidate /\ [][NextValidate]_vars

\* the records of a topics CSV file
CsvHeader == <<<<"Name">>, <<"description">>, <<"keywords">>, <<" ", "WEIGHT">>>>

CsvRows ==
    {<<<<"X">>, <<"about X">>, <<"k1", ",", " ", "k2">>, <<"5">>>>,
     <<<<" ", "Y">>, <<>>, <<>>, <<"0">>>>,
     <<<<"Y", " ">>, <<"about Y">>, <<",">>, <<"x">>>>,
     <<<<" ">>, <<"no name">>, <<"k1">>, <<"5">>>>,
     <<<<"X">>, <<>>, <<"k1">>, <<"-", "1">>>>}

\* topics CSV files: one the reader rejects, a header with up to MaxRows
\* rows, a header without the name column, a header without the weight column
CsvFiles ==
    {NoCsv}
    \cup {[ok |-> TRUE, records |-> <<CsvHeader>> \o rows] :
             rows \in SeqsUpTo(CsvRows, MaxRows)}
    \cup {[ok |-> TRUE,
           records |-> <<<<<<"title">>, <<"description">>, <<"keywords">>, <<"weight">>>>,
                         <<<<"X">>, <<>>, <<>>, <<"5">>>>>>],
          [ok |-> TRUE,
           records |-> <<<<<<"name">>, <<"description">>, <<"keywords">>, <<"priority">>>>,
                         <<<<"X">>, <<>>, <<>>, <<"-", "1">>>>>>]}

\* what reading and unmarshalling the YAML file gives
YamlDocs ==
    {[kind |-> "readError", config |-> NilConfig],
     [kind |-> "yamlError", config |-> NilConfig]}
    \cup {[kind |-> "config",
           config |-> Config(APIKeysConfig(<<"yaml-key">>, <<>>), ai, ts, NoStyle, tf,
                             p[1], p[2])] :
             ai \in {AIConfig(<<>>, 0, NilFloat, 0),
                     AIConfig(<<"claude-sonnet-4-20250514">>, 8192, FloatPtr(10), 120),
                     AIConfig(<<"claude-sonnet-4-20250514">>, 200001, FloatPtr(5), 120)},
             ts \in ConfigTopics \ {<<TopicConfig(<<"Test">>, <<>>, <<>>, 0)>>},
             tf \in {<<>>, CsvPath},
             p \in {<<<<>>, <<>>>>, <<PromptPath, SystemPath>>}}

InitLoad ==
    /\ pc = "load"
    /\ RetryIdle
    /\ cerr = NoErr
    /\ cres = FALSE
    /\ raw = Idle
    /\ parsed = Idle
    /\ payload = Idle
    /\ GenIdle
    /\ SelIdle
    /\ yaml \in YamlDocs
    /\ \E m \in {{}, {<<"templates/article-prompt.md">>}, {PromptPath}, {CsvPath}},
          f \in (IF yaml.kind = "config" /\ yaml.config.TopicsFile # <<>>
                 THEN CsvFiles ELSE {NoCsv}),
          k \in {<<>>, <<"env-key">>} :
            env = [missing |-> m, csv |-> f, ANTHROPIC_API_KEY |-> k, MEDIUM_TOKEN |-> k]
    /\ config = Idle
    /\ cfgErr = Idle
    /\ PubIdle
    /\ MainIdle

NextLoad == LoadConfig

SpecLoad == InitLoad /\ [][NextLoad]_vars

----------------------------------------------------------------------------
(* Properties of the configuration *)

\* C23: Validate returns an error for a configuration that has a topic with
\* weight 0, also when every other field of the configuration is valid.
C23_ZeroWeightRejected ==
    (pc = "validated" /\ \E i \in 1..Len(config.Topics) : config.Topics[i].Weight = 0)
        => cfgErr # NoErr

\* C24: every configuration a successful Load returns has a non-empty topic
\* list whose topics all have a non-empty name and a non-negative weight;
\* the list is the CSV file's topics when the file yields at least one, the
\* single default topic when neither the file nor the YAML gave a topic, and
\* the YAML topics otherwise.
C24_LoadedTopicsValid ==
    (pc = "loaded" /\ cfgErr = NoErr) =>
        LET ts == config.Topics
            csvTopics == IF yaml.config.TopicsFile = <<>> THEN <<>>
                         ELSE loadTopicsFromCSV(yaml.config.TopicsFile, env).topics
        IN  /\ Len(ts) > 0
            /\ \A i \in 1..Len(ts) : ts[i].Name # <<>> /\ ts[i].Weight >= 0
            /\ Len(csvTopics) > 0 => ts = csvTopics
            /\ (Len(csvTopics) = 0 /\ Len(yaml.config.Topics) = 0) => ts = getDefaultTopics
            /\ (Len(csvTopics) = 0 /\ Len(yaml.config.Topics) > 0) => ts = yaml.config.Topics

\* Load succeeded with the topic of a CSV file in place of the YAML topics,
\* one row of the file having been skipped for its empty name
C24_Witness ==
    /\ pc = "loaded"
    /\ cfgErr = NoErr
    /\ Len(yaml.config.Topics) = 2
    /\ Len(env.csv.records) = 3
    /\ Len(config.Topics) = 1
    /\ config.Topics[1].Name = <<"Y">>
    /\ config.Topics[1].Weight = 0

----------------------------------------------------------------------------
(* Publish and getUser of the Medium publisher *)

MediumURL == <<"https://api.medium.com/v1">>

\* what the network and Medium do on one request:
\*   "doErr"   client.Do fails with err (wrapped in a *url.Error)
\*   "readErr" reading the body fails with err
\*   "http"    a response: status, body text, whether the body is JSON of the
\*             expected shape, and the text of data.id or data.url in it
Response(k, e, st, b, j, d) ==
    [kind |-> k, err |-> e, status |-> st, body |-> b, json |-> j, data |-> d]

MediumStatuses == {200, 201, 401, 500}

MediumBodies == {<<>>, <<"x">>}

\* data.id of the lookup: none, an id, an id no URL can carry
UserIDs == {<<>>, <<"u1">>, <<"\n">>}

\* data.url of the post response: none, a URL
PostURLs == {<<>>, <<"https://medium.com/p/1">>}

MediumResponses(ctx, data) ==
    IF ctx # "nil"
    THEN {Response("doErr", CtxError(ctx), 0, <<>>, FALSE, <<>>)}
    ELSE {Response("doErr", ConnRefused, 0, <<>>, FALSE, <<>>),
          Response("readErr", EOFError, 0, <<>>, FALSE, <<>>)}
         \cup {Response("http", NoErr, st, b, FALSE, <<>>) :
                  st \in MediumStatuses, b \in MediumBodies}
         \cup {Response("http", NoErr, st, b, TRUE, d) :
                  st \in MediumStatuses, b \in MediumBodies, d \in data}

Request(method, url, body) == [method |-> method, url |-> url, body |-> body]

\* the Post built from the article; json.Marshal of it cannot fail
Post(a) ==
    [Title |-> a.Title, ContentFormat |-> "markdown", Content |-> a.Content,
     Tags |-> a.Tags, PublishStatus |-> "public"]

\* the *url.Error of client.Do
MediumError(op, url, cause) ==
    [kind |-> "url.Error",
     msg |-> <<op, " ", "\"">> \o url \o <<"\"", ": ">> \o cause.msg,
     wraps |-> IF cause.kind \in {"context.Canceled", "context.DeadlineExceeded"}
               THEN cause.kind ELSE cause.wraps]

NilUser == [nil |-> TRUE, ID |-> <<>>]
User(id) == [nil |-> FALSE, ID |-> id]

MeURL == MediumURL \o <<"/me">>

PostsURL(id) == MediumURL \o <<"/users/">> \o id \o <<"/posts">>

\* http.NewRequestWithContext rejects a URL with a control character
BadURL(url) == \E i \in 1..Len(url) : url[i] = "\n"

\* getUser: the (user, err) for the answer r
getUser(r) ==
    CASE r.kind = "doErr" -> [user |-> NilUser, err |-> MediumError("Get", MeURL, r.err)]
      [] r.kind = "readErr" -> [user |-> NilUser, err |-> r.err]
      [] OTHER ->
            IF r.status # 200
            THEN [user |-> NilUser,
                  err |-> ErrorOf(<<"failed to get user (status ">>
                                  \o FormatStatus(r.status) \o <<"): ">> \o r.body)]
            ELSE IF ~r.json
            THEN [user |-> NilUser, err |-> ErrorOf(<<"invalid character">>)]
            ELSE [user |-> User(r.data), err |-> NoErr]

\* a variant that accepts any 2xx answer to the post request
publishResult_Any2xx(url, r) ==
    CASE r.kind = "doErr" -> [url |-> <<>>, err |-> MediumError("Post", url, r.err)]
      [] r.kind = "readErr" -> [url |-> <<>>, err |-> r.err]
      [] OTHER ->
            IF r.status \notin 200..299
            THEN [url |-> <<>>,
                  err |-> ErrorOf(<<"failed to publish (status ">>
                                  \o FormatStatus(r.status) \o <<"): ">> \o r.body)]
            ELSE IF ~r.json
            THEN [url |-> <<>>, err |-> ErrorOf(<<"invalid character">>)]
            ELSE [url |-> r.data, err |-> NoErr]

\* Publish after the request was sent: the (url, err) for the answer r
publishResult(url, r) ==
    CASE r.kind = "doErr" -> [url |-> <<>>, err |-> MediumError("Post", url, r.err)]
      [] r.kind = "readErr" -> [url |-> <<>>, err |-> r.err]
      [] OTHER ->
            IF r.status # 201
            THEN [url |-> <<>>,
                  err |-> ErrorOf(<<"failed to publish (status ">>
                                  \o FormatStatus(r.status) \o <<"): ">> \o r.body)]
            ELSE IF ~r.json
            THEN [url |-> <<>>, err |-> ErrorOf(<<"invalid character">>)]
            ELSE [url |-> r.data, err |-> NoErr]

\* Publish up to the return of getUser
GetUser ==
    /\ pc = "publish"
    /\ \E r \in MediumResponses(ctxErr, UserIDs) :
          /\ requests' = Append(requests, Request("GET", MeURL, Idle))
          /\ responses' = Append(responses, r)
          /\ user' = getUser(r).user
          /\ IF getUser(r).err # NoErr
             THEN /\ published' = [url |-> <<>>,
                                   err |-> WrapError("failed to get user", getUser(r).err)]
                  /\ pc' = "published"
             ELSE /\ published' = published
                  /\ pc' = "post"
    /\ UNCHANGED <<callVars, cerr, cres, raw, parsed, payload, genVars, selVars>>
    /\ UNCHANGED <<cfgVars, mainVars>>

\* Publish after getUser: the post request and the return
PostArticle ==
    /\ pc = "post"
    /\ IF BadURL(PostsURL(user.ID))
       THEN /\ published' = [url |-> <<>>,
                             err |-> ErrorOf(<<"parse ">> \o PostsURL(user.ID)
                                             \o <<": invalid control character in URL">>)]
            /\ UNCHANGED <<requests, responses>>
       ELSE \E r \in MediumResponses(ctxErr, PostURLs) :
               /\ requests' = Append(requests,
                                     Request("POST", PostsURL(user.ID), Post(article)))
               /\ responses' = Append(responses, r)
               /\ published' = publishResult(PostsURL(user.ID), r)
    /\ pc' = "published"
    /\ UNCHANGED <<callVars, cerr, cres, raw, parsed, payload, genVars, selVars>>
    /\ UNCHANGED <<cfgVars, mainVars, user>>

\* articles handed to Publish
Articles ==
    {[kind |-> "article", err |-> "nil", Title |-> <<"T">>, Content |-> <<>>,
      Tags |-> <<>>, PublishedAt |-> 1],
     [kind |-> "article", err |-> "nil", Title |-> <<"T">>, Content |-> <<"text">>,
      Tags |-> <<<<"go">>>>, PublishedAt |-> 2]}

InitPublish ==
    /\ pc = "publish"
    /\ apiURL = ProdURL
    /\ ctxErr \in {"nil", "context.Canceled", "context.DeadlineExceeded"}
    /\ attempt = 0
    /\ backoff = 0
    /\ lastErr = NoErr
    /\ ret = Pending
    /\ attempts = 0
    /\ waits = <<>>
    /\ lastOutcome = NoOutcome
    /\ allRetryable = TRUE
    /\ cancelledAt = "never"
    /\ aborted = FALSE
    /\ cerr = NoErr
    /\ cres = FALSE
    /\ raw = Idle
    /\ parsed = Idle
    /\ payload = Idle
    /\ topics = Idle
    /\ template = Idle
    /\ topic = Idle
    /\ history = Idle
    /\ previousTitles = Idle
    /\ prompt = Idle
    /\ article \in Articles
    /\ SelIdle
    /\ CfgIdle
    /\ PubIdle
    /\ MainIdle

NextPublish == GetUser \/ PostArticle

SpecPublish == InitPublish /\ [][NextPublish]_vars

\* the lookup was answered with the user: status 200 and a JSON body
LookupSucceeded ==
    /\ Len(responses) >= 1
    /\ responses[1].kind = "http" /\ responses[1].status = 200 /\ responses[1].json

\* C25: the requests of a Publish are the user lookup, then at most one post
\* request, issued only after the lookup succeeded; a Publish that returns
\* without error has made exactly these two requests; after a failed lookup
\* there is no post request and the error is "failed to get user: ..."; a URL
\* is returned only when the post request was answered with status 201.
C25_LookupThenPost ==
    /\ Len(requests) <= 2
    /\ Len(requests) >= 1 => (requests[1].method = "GET" /\ requests[1].url = MeURL)
    /\ Len(requests) = 2 =>
          /\ requests[2].method = "POST"
          /\ LookupSucceeded
          /\ requests[2].url = PostsURL(user.ID)
    /\ pc = "published" =>
          /\ Len(requests) >= 1
          /\ published.err = NoErr =>
                /\ Len(requests) = 2
                /\ responses[2].kind = "http" /\ responses[2].status = 201
          /\ published.url # <<>> => published.err = NoErr
          /\ ~LookupSucceeded =>
                /\ Len(requests) = 1
                /\ published.url = <<>>
                /\ published.err.kind = "wrapError"
                /\ published.err.msg[1] = "failed to get user"

\* Publish returned the URL of the post after both requests
C25_Witness ==
    /\ pc = "published"
    /\ published = [url |-> <<"https://medium.com/p/1">>, err |-> NoErr]
    /\ Len(requests) = 2
    /\ requests[2].url = PostsURL(<<"u1">>)

----------------------------------------------------------------------------
(* main: one run of the program, from the loaded configuration on *)

\* the content of articles.json
NoFile == [kind |-> "missing", articles |-> <<>>]
CorruptFile == [kind |-> "corrupt", articles |-> <<>>]
HistoryFile(h) == [kind |-> "history", articles |-> h]

\* store.Load(), and main's empty history when it fails
LoadHistory(f) == IF f.kind = "history" THEN f.articles ELSE <<>>

GetAnthropicKey(c, e) ==
    IF e.ANTHROPIC_API_KEY # <<>> THEN e.ANTHROPIC_API_KEY ELSE c.APIKeys.Anthropic

GetMediumToken(c, e) ==
    IF e.MEDIUM_TOKEN # <<>> THEN e.MEDIUM_TOKEN ELSE c.APIKeys.Medium

\* sanitizeFilename: spaces become "-", other symbols that are not letters,
\* digits or "-" are dropped
RECURSIVE sanitizeFilename(_)
sanitizeFilename(t) ==
    IF t = <<>> THEN <<>>
    ELSE (CASE t[1] = " " -> <<"-">>
            [] t[1] \in {"\"", ":", "{", "}", ",", "\n"} -> <<>>
            [] OTHER -> <<t[1]>>) \o sanitizeFilename(Tail(t))

\* the storage.ArticleRecord main appends
NewRecord(a, tp, url) ==
    [Title |-> a.Title, Topic |-> tp, PublishedAt |-> a.PublishedAt, URL |-> url,
     Tags |-> a.Tags]

\* main from the key checks to the choice of the topic
StartRun ==
    /\ pc = "main"
    /\ IF GetAnthropicKey(config, env) = <<>>
          \/ (GetMediumToken(config, env) = <<>> /\ ~dryRun)
       THEN /\ status' = "fatal"
            /\ pc' = "exit"
            /\ UNCHANGED <<history, topic>>
       ELSE /\ history' = LoadHistory(store)
            /\ status' = status
            /\ IF topicFlag # <<>>
               THEN topic' = topicFlag /\ pc' = "generate"
               ELSE topic' = topic /\ pc' = "select"
    /\ UNCHANGED <<callVars, cerr, cres, raw, parsed, payload, selVars, cfgVars, pubVars>>
    /\ UNCHANGED <<topics, template, previousTitles, prompt, article>>
    /\ UNCHANGED <<dryRun, topicFlag, store, saves, publishCalls, localFiles>>

\* topic = cfg.SelectRandomTopic(): the value returned, or its panic
UseSelected ==
    /\ pc = "selected"
    /\ IF selected.kind = "name"
       THEN topic' = selected.name /\ pc' = "generate" /\ status' = status
       ELSE topic' = topic /\ pc' = "exit" /\ status' = "panic"
    /\ UNCHANGED <<callVars, cerr, cres, raw, parsed, payload, selVars, cfgVars, pubVars>>
    /\ UNCHANGED <<topics, template, history, previousTitles, prompt, article>>
    /\ UNCHANGED <<dryRun, topicFlag, store, saves, publishCalls, localFiles>>

\* Generate has returned and its frame is gone
FrameGone ==
    /\ attempt' = 0
    /\ backoff' = 0
    /\ lastErr' = NoErr
    /\ ret' = Pending
    /\ attempts' = 0
    /\ waits' = <<>>
    /\ lastOutcome' = NoOutcome
    /\ allRetryable' = TRUE
    /\ aborted' = FALSE
    /\ previousTitles' = Idle
    /\ prompt' = Idle
    /\ UNCHANGED <<apiURL, ctxErr, cancelledAt>>

\* a variant that publishes in a dry run too
HandleArticle_IgnoreDryRun ==
    /\ pc = "returned"
    /\ IF article.kind # "article"
       THEN /\ status' = IF article.kind = "panic" THEN "panic" ELSE "fatal"
            /\ pc' = "exit"
            /\ UNCHANGED <<localFiles, publishCalls>>
       ELSE /\ localFiles' \in {localFiles, localFiles \cup {sanitizeFilename(article.Title)}}
            /\ status' = status
            /\ pc' = "publish"
            /\ publishCalls' = publishCalls + 1
    /\ FrameGone
    /\ UNCHANGED <<cerr, cres, raw, parsed, payload, selVars, cfgVars, pubVars>>
    /\ UNCHANGED <<topics, template, topic, history, article>>
    /\ UNCHANGED <<dryRun, topicFlag, store, saves>>

\* main after Generate: the fatal exit on an error (a panic ends the process
\* too), the local copy of the article, the end of a dry run, or the call
\* of Publish
HandleArticle ==
    /\ pc = "returned"
    /\ IF article.kind # "article"
       THEN /\ status' = IF article.kind = "panic" THEN "panic" ELSE "fatal"
            /\ pc' = "exit"
            /\ UNCHANGED <<localFiles, publishCalls>>
       ELSE /\ localFiles' \in {localFiles, localFiles \cup {sanitizeFilename(article.Title)}}
            /\ IF dryRun
               THEN /\ status' = "ok"
                    /\ pc' = "exit"
                    /\ publishCalls' = publishCalls
               ELSE /\ status' = status
                    /\ pc' = "publish"
                    /\ publishCalls' = publishCalls + 1
    /\ FrameGone
    /\ UNCHANGED <<cerr, cres, raw, parsed, payload, selVars, cfgVars, pubVars>>
    /\ UNCHANGED <<topics, template, topic, history, article>>
    /\ UNCHANGED <<dryRun, topicFlag, store, saves>>

\* a variant that updates the history whatever Publish returned
RecordAndSave_Always ==
    /\ pc = "published"
    /\ history' = Append(history, NewRecord(article, topic, published.url))
    /\ saves' = saves + 1
    /\ store' \in {HistoryFile(history'), store, CorruptFile}
    /\ status' = IF published.err # NoErr THEN "fatal" ELSE "ok"
    /\ pc' = "exit"
    /\ UNCHANGED <<callVars, cerr, cres, raw, parsed, payload, selVars, cfgVars, pubVars>>
    /\ UNCHANGED <<topics, template, topic, previousTitles, prompt, article>>
    /\ UNCHANGED <<dryRun, topicFlag, publishCalls, localFiles>>

\* main after Publish: the fatal exit on an error, or the record appended
\* to the history and store.Save, whose failure is only logged; a failed
\* os.WriteFile leaves the file as it was or cut short
RecordAndSave ==
    /\ pc = "published"
    /\ IF published.err # NoErr
       THEN /\ status' = "fatal"
            /\ UNCHANGED <<history, saves, store>>
       ELSE /\ history' = Append(history, NewRecord(article, topic, published.url))
            /\ saves' = saves + 1
            /\ store' \in {HistoryFile(history'), store, CorruptFile}
            /\ status' = "ok"
    /\ pc' = "exit"
    /\ UNCHANGED <<callVars, cerr, cres, raw, parsed, payload, selVars, cfgVars, pubVars>>
    /\ UNCHANGED <<topics, template, topic, previousTitles, prompt, article>>
    /\ UNCHANGED <<dryRun, topicFlag, publishCalls, localFiles>>

\* the configuration of the run: one topic of weight 0 and one of weight 1
MainTopics ==
    <<TopicConfig(<<"X">>, <<"about X">>, <<<<"k1">>>>, 0),
      TopicConfig(<<"Y">>, <<>>, <<>>, 1)>>

MainConfig ==
    Config(APIKeysConfig(<<>>, <<>>),
           AIConfig(<<"claude-sonnet-4-20250514">>, 8192, FloatPtr(10), 120),
           MainTopics, StyleConfig(Style.Tone, Style.Length, Style.TargetAudience,
                                   Style.IncludeCode),
           <<>>, <<"templates/article-prompt.md">>, <<"templates/system-prompt.md">>)

\* main after flag.Parse and a successful config.Load
InitMain ==
    /\ pc = "main"
    /\ apiURL = ProdURL
    /\ ctxErr = "nil"
    /\ attempt = 0
    /\ backoff = 0
    /\ lastErr = NoErr
    /\ ret = Pending
    /\ attempts = 0
    /\ waits = <<>>
    /\ lastOutcome = NoOutcome
    /\ allRetryable = TRUE
    /\ cancelledAt = "never"
    /\ aborted = FALSE
    /\ cerr = NoErr
    /\ cres = FALSE
    /\ raw = Idle
    /\ parsed = Idle
    /\ payload = Idle
    /\ SelIdle
    /\ topics = MainTopics
    /\ template = FileContent(ShippedTemplate)
    /\ topic = Idle
    /\ history = Idle
    /\ previousTitles = Idle
    /\ prompt = Idle
    /\ article = Idle
    /\ yaml = Idle
    /\ config = MainConfig
    /\ cfgErr = NoErr
    /\ \E k \in {<<<<"sk-key">>, <<"token">>>>, <<<<"sk-key">>, <<>>>>,
                  <<<<>>, <<"token">>>>} :
          env = [missing |-> {}, csv |-> NoCsv, ANTHROPIC_API_KEY |-> k[1],
                 MEDIUM_TOKEN |-> k[2]]
    /\ PubIdle
    /\ dryRun \in BOOLEAN
    /\ topicFlag \in {<<>>, <<"X">>}
    /\ store \in {NoFile, HistoryFile(SampleHistory)}
    /\ saves = 0
    /\ publishCalls = 0
    /\ localFiles = {}
    /\ status = "running"

NextMain ==
    \/ StartRun
    \/ SelectRandomTopic
    \/ UseSelected
    \/ BuildPrompt
    \/ CallAPI
    \/ BackoffTimer
    \/ BackoffCancelled
    \/ Cancel
    \/ Finish
    \/ HandleArticle
    \/ GetUser
    \/ PostArticle
    \/ RecordAndSave

SpecMain == InitMain /\ [][NextMain]_vars

----------------------------------------------------------------------------
(* Properties of a run of main *)

\* C22: in one run the history is appended to and saved at most once, and
\* only in the step after Publish has returned without error (so never in a
\* dry run, and never when generation or publishing failed); the record
\* appended is the one of the published article, and no other step writes
\* the history store.
C22_HistorySavedOnceAfterPublish ==
    [][(saves' # saves \/ store' # store \/ (pc # "main" /\ history' # history)) =>
          /\ pc = "published"
          /\ published.err = NoErr
          /\ article.kind = "article"
          /\ ~dryRun
          /\ publishCalls = 1
          /\ saves = 0
          /\ saves' = 1
          /\ history' = Append(history, NewRecord(article, topic, published.url))
          /\ store' \in {HistoryFile(history'), store, CorruptFile}]_vars

\* the run ended with the published article recorded in articles.json
C22_Witness ==
    /\ pc = "exit"
    /\ status = "ok"
    /\ saves = 1
    /\ store = HistoryFile(history)
    /\ Len(history) = 4
    /\ history[4].URL = <<"https://medium.com/p/1">>
    /\ history[4].Topic = <<"Y">>

\* C28: in one run Publish is invoked at most once, only after Generate has
\* returned an article and never in a dry run; no request goes to Medium
\* without that invocation, and when Generate fails the run ends with no
\* Publish and no request.
C28_PublishOnceAfterArticle ==
    /\ publishCalls <= 1
    /\ Len(requests) > 0 => publishCalls = 1
    /\ publishCalls = 1 => (article.kind = "article" /\ ~dryRun)
    /\ pc \in {"publish", "post", "published"} => publishCalls = 1
    /\ (pc = "exit" /\ article # Idle /\ article.kind # "article") =>
          (publishCalls = 0 /\ requests = <<>> /\ status \in {"fatal", "panic"})

\* a run whose generation failed has ended without Publish
C28_Witness ==
    /\ pc = "exit"
    /\ article # Idle
    /\ article.kind = "error"
    /\ ~dryRun
    /\ publishCalls = 0
    /\ requests = <<>>
    /\ status = "fatal"

\* C29: SelectRandomTopic leaves the topic list as it is, and no step of
\* Generate, successful or not, changes the history it was given.
C29_InputsUnchanged ==
    [][/\ pc = "select" => topics' = topics
       /\ pc \in {"generate", "call", "backoff", "done"} => history' = history]_vars

\* Generate has returned an article for a topic SelectRandomTopic chose from
\* a list with a weight of 0, the history being the stored one
C29_Witness ==
    /\ pc = "returned"
    /\ selected = Selected(<<"X">>)
    /\ topics = MainTopics
    /\ history = SampleHistory
    /\ article.kind = "article"

====
